---- MODULE Spec2Model ----
(***************************************************************************)
(* A model of the Mnemosyne memory engine (server/app/storage/             *)
(* neo4j_storage.py): the labelled property graph it keeps in the store,   *)
(* and the write_memory, read_memory and search_memory operations on it.   *)
(*                                                                         *)
(* Conventions.  A Python str is a sequence of one-character strings, so   *)
(* that strip(), lower(), len() and slicing are computed, not assumed.     *)
(* An Optional value is the empty set (None) or a singleton {v}.  An ISO   *)
(* timestamp is the integer instant it denotes (isoformat is injective     *)
(* and order preserving on UTC instants).  An elementId is the position of *)
(* the node in the store's node sequence.                                  *)
(***************************************************************************)
EXTENDS Integers, Sequences, FiniteSets, Bags, TLC

VARIABLES
    multi_tenant,   \* Neo4jStorage._multi_tenant, fixed at construction
    items,          \* the (:MemoryItem) nodes, in creation order
    tagged,         \* the bag of (:MemoryItem)-[:TAGGED_WITH]->(:Tag) edges, <<id, name>>
    tagNodes,       \* the names of the (:Tag) nodes
    spaceNodes,     \* the ids of the (:Space) nodes
    contains,       \* the set of (:Space)-[:CONTAINS]->(:MemoryItem) edges, <<space, id>>
    sessions,       \* the (:Session) nodes, in creation order
    follows,        \* the set of (:Session)-[:FOLLOWS]->(:Session) edges, <<id, prev id>>
    workspaceNodes, \* the names of the (:Workspace) nodes
    call,           \* per caller: the write_memory call in flight and its position
    calls,          \* the number of write_memory calls the concurrent callers have begun
    hist,           \* history: per dedup key, what the upserts applied to it supplied
    committed,      \* history: the arguments of the commit_session calls, per Session
    last            \* history: the operation that returned last, its arguments and result

vars == <<multi_tenant, items, tagged, tagNodes, spaceNodes, contains, sessions, follows,
          workspaceNodes, call, calls, hist, committed, last>>

store == <<items, tagged, tagNodes, spaceNodes, contains>>

sessionStore == <<sessions, follows, workspaceNodes>>

-----------------------------------------------------------------------------
(* Optional values and Python truthiness *)

None == {}

Some(v) == {v}

Get(o) == CHOOSE v \in o : TRUE

\* Python `o or d` for an Optional[str] / Optional[list]: None and the empty
\* sequence are falsy.
OrElse(o, d) == IF o = None \/ Get(o) = <<>> THEN d ELSE Get(o)

Max(S) == CHOOSE x \in S : \A y \in S : y <= x

Min(S) == CHOOSE x \in S : \A y \in S : x <= y

-----------------------------------------------------------------------------
(* Strings *)

Whitespace == {" ", "\t", "\n", "\r"}

RECURSIVE LStrip(_)
LStrip(s) == IF s # <<>> /\ Head(s) \in Whitespace THEN LStrip(Tail(s)) ELSE s

RECURSIVE RStrip(_)
RStrip(s) ==
    IF s # <<>> /\ s[Len(s)] \in Whitespace
    THEN RStrip(SubSeq(s, 1, Len(s) - 1))
    ELSE s

\* str.strip()
Strip(s) == RStrip(LStrip(s))

UpperChars ==
    <<"A", "B", "C", "D", "E", "F", "G", "H", "I", "J", "K", "L", "M",
      "N", "O", "P", "Q", "R", "S", "T", "U", "V", "W", "X", "Y", "Z">>

LowerChars ==
    <<"a", "b", "c", "d", "e", "f", "g", "h", "i", "j", "k", "l", "m",
      "n", "o", "p", "q", "r", "s", "t", "u", "v", "w", "x", "y", "z">>

LowerMap ==
    [c \in {UpperChars[i] : i \in DOMAIN UpperChars} |->
        LowerChars[CHOOSE i \in DOMAIN UpperChars : UpperChars[i] = c]]

LowerChar(c) == IF c \in DOMAIN LowerMap THEN LowerMap[c] ELSE c

\* str.lower()
Lower(s) == [i \in 1..Len(s) |-> LowerChar(s[i])]

\* n copies of the character c
Rep(c, n) == [i \in 1..n |-> c]

\* str.rfind(sep): the highest 0-based index at which sep occurs, or -1
RFind(s, sep) ==
    LET at == {i \in 0..(Len(s) - Len(sep)) : \A j \in DOMAIN sep : s[i + j] = sep[j]}
    IN  IF at = {} THEN -1 ELSE Max(at)

\* The single character U+2026 that _auto_compact appends.
Ellipsis == "ELLIPSIS"

s_answer == <<"a", "n", "s", "w", "e", "r">>

s_decision == <<"d", "e", "c", "i", "s", "i", "o", "n">>

s_pattern == <<"p", "a", "t", "t", "e", "r", "n">>

s_command == <<"c", "o", "m", "m", "a", "n", "d">>

s_note == <<"n", "o", "t", "e">>

s_agent == <<"a", "g", "e", "n", "t">>

s_global == <<"g", "l", "o", "b", "a", "l">>

s_personal == <<"p", "e", "r", "s", "o", "n", "a", "l", ":">>

-----------------------------------------------------------------------------
(* Module constants of neo4j_storage.py *)

VALID_KINDS == {s_answer, s_decision, s_pattern, s_command, s_note}

AUTO_COMPACT_MAX_CHARS == 200

Separators == << <<"\n">>, <<".", " ">>, <<"!", " ">>, <<"?", " ">> >>

\* _auto_compact(content, max_chars)
auto_compact(content, max_chars) ==
    LET c == Strip(content)
    IN  IF Len(c) <= max_chars
        THEN c
        ELSE LET truncated == SubSeq(c, 1, max_chars)
                 hits == {k \in DOMAIN Separators :
                              RFind(truncated, Separators[k]) > max_chars \div 2}
                 cut == IF hits = {}
                        THEN truncated
                        ELSE LET sep == Separators[Min(hits)]
                             IN  RStrip(SubSeq(truncated, 1,
                                               RFind(truncated, sep) + Len(sep)))
             IN  Append(cut, Ellipsis)

-----------------------------------------------------------------------------
(* Tenant resolution *)

NoContext == [user_id |-> None, space_id |-> None, allowed_spaces |-> None]

\* Neo4jStorage._derive_space_and_allowed(context): context is None or {ctx}
derive_space_and_allowed(context) ==
    LET ctx      == IF context = None THEN NoContext ELSE Get(context)
        user_id  == Strip(OrElse(ctx.user_id, <<>>))
        given    == Strip(OrElse(ctx.space_id, <<>>))
        space_id == IF given # <<>> THEN given
                    ELSE IF user_id # <<>> THEN s_personal \o user_id
                    ELSE s_global
        allowed  == IF ctx.allowed_spaces = None \/ Get(ctx.allowed_spaces) = <<>>
                    THEN <<space_id>>
                    ELSE Get(ctx.allowed_spaces)
    IN  [space_id |-> space_id, allowed |-> allowed]

Range(f) == {f[i] : i \in DOMAIN f}

-----------------------------------------------------------------------------
(* write_memory: normalisation of the arguments (lines 271-294) *)

\* Mutant: the kind is lowercased but an unknown kind is stored as given.
normalize_kind_NoFallback(kind) == Lower(Strip(OrElse(kind, <<>>)))

\* kind = (kind or "").strip().lower(); if kind not in VALID_KINDS: kind = "note"
normalize_kind(kind) ==
    LET k == Lower(Strip(OrElse(kind, <<>>)))
    IN  IF k \in VALID_KINDS THEN k ELSE s_note

\* content_compact: auto-generated when None, stripped otherwise
normalize_compact(content_compact, content) ==
    IF content_compact = None
    THEN auto_compact(content, AUTO_COMPACT_MAX_CHARS)
    ELSE Strip(Get(content_compact))

\* Mutant: the clamp has lost its lower end.
normalize_importance_NoFloor(importance) ==
    Min({100, IF importance = None THEN 50 ELSE Get(importance)})

\* importance = 50 if None; importance = max(0, min(100, importance))
normalize_importance(importance) ==
    LET v == IF importance = None THEN 50 ELSE Get(importance)
    IN  Max({0, Min({100, v})})

\* source = (source or "agent").strip()
normalize_source(source) == Strip(OrElse(source, s_agent))

\* workspace_hint = (workspace_hint or "").strip() or None
normalize_workspace(workspace_hint) ==
    LET w == Strip(OrElse(workspace_hint, <<>>))
    IN  IF w = <<>> THEN None ELSE Some(w)

\* The arguments of one call after normalisation, with the timestamp `now` the
\* call read from the clock and, in multi-tenant mode, the derived space.
Normalize(req, now, mt) ==
    LET content == Strip(req.content)
    IN  [kind            |-> normalize_kind(req.kind),
         title           |-> Strip(req.title),
         content         |-> content,
         tags            |-> OrElse(req.tags, <<>>),
         now             |-> now,
         content_compact |-> normalize_compact(req.content_compact, content),
         importance      |-> normalize_importance(req.importance),
         source          |-> normalize_source(req.source),
         workspace_hint  |-> normalize_workspace(req.workspace_hint),
         pinned          |-> req.pinned,
         space_id        |-> IF mt
                             THEN Some(derive_space_and_allowed(req.context).space_id)
                             ELSE None]

\* The dedup key of a call: (kind, title), and the space in multi-tenant mode.
KeyOf(a) == [space_id |-> a.space_id, kind |-> a.kind, title |-> a.title]

-----------------------------------------------------------------------------
(* write_memory: the Cypher statements, as functions of the store *)

\* The node pattern of MERGE / MATCH: (m:MemoryItem {kind, title}) or
\* (m:MemoryItem {space_id, kind, title}).
MatchesKey(m, a) ==
    /\ m.kind = a.kind
    /\ m.title = a.title
    /\ (a.space_id # None => m.space_id = a.space_id)

Matching(its, a) == {i \in DOMAIN its : MatchesKey(its[i], a)}

\* ON CREATE SET
NewItem(a) ==
    [space_id        |-> a.space_id,
     kind            |-> a.kind,
     title           |-> a.title,
     content         |-> a.content,
     content_compact |-> a.content_compact,
     created_at      |-> a.now,
     updated_at      |-> a.now,
     pinned          |-> a.pinned,
     importance      |-> a.importance,
     workspace_hint  |-> a.workspace_hint,
     source          |-> a.source]

OnCreate(its, a) == Append(its, NewItem(a))

\* Mutant: ON MATCH SET repeats ON CREATE SET and stamps created_at again.
OnMatchSet_StampsCreated(m, a) ==
    [m EXCEPT !.content         = a.content,
              !.content_compact = a.content_compact,
              !.created_at      = a.now,
              !.updated_at      = a.now,
              !.pinned          = a.pinned,
              !.importance      = a.importance,
              !.workspace_hint  = a.workspace_hint,
              !.source          = a.source]

\* Mutant: ON MATCH SET forgets updated_at.
OnMatchSet_KeepsUpdated(m, a) ==
    [m EXCEPT !.content         = a.content,
              !.content_compact = a.content_compact,
              !.pinned          = a.pinned,
              !.importance      = a.importance,
              !.workspace_hint  = a.workspace_hint,
              !.source          = a.source]

\* Mutant: ON MATCH SET leaves pinned and source as they were.
OnMatchSet_KeepsPinned(m, a) ==
    [m EXCEPT !.content         = a.content,
              !.content_compact = a.content_compact,
              !.updated_at      = a.now,
              !.importance      = a.importance,
              !.workspace_hint  = a.workspace_hint]

\* Mutant: ON MATCH SET leaves importance and workspace_hint as they were.
OnMatchSet_KeepsRanking(m, a) ==
    [m EXCEPT !.content         = a.content,
              !.content_compact = a.content_compact,
              !.updated_at      = a.now,
              !.pinned          = a.pinned,
              !.source          = a.source]

\* ON MATCH SET
OnMatchSet(m, a) ==
    [m EXCEPT !.content         = a.content,
              !.content_compact = a.content_compact,
              !.updated_at      = a.now,
              !.pinned          = a.pinned,
              !.importance      = a.importance,
              !.workspace_hint  = a.workspace_hint,
              !.source          = a.source]

OnMatch(its, a) ==
    [i \in DOMAIN its |-> IF MatchesKey(its[i], a) THEN OnMatchSet(its[i], a) ELSE its[i]]

\* Mutant: the action is read off updated_at, which every upsert sets to $now.
merge_action_ByUpdated(m, a) == IF m.updated_at = a.now THEN "created" ELSE "updated"

\* CASE WHEN m.created_at = $now THEN 'created' ELSE 'updated' END AS action
merge_action(m, a) == IF m.created_at = a.now THEN "created" ELSE "updated"

\* Mutant: the stale edges are left in place.
DeleteTagEdges_Skipped(tg, its, a) == tg

\* Mutant: the DELETE matches the item on its title alone.
DeleteTagEdges_ByTitle(tg, its, a) ==
    LET keep == {e \in DOMAIN tg : its[e[1]].title # a.title}
    IN  [e \in keep |-> tg[e]]

\* Mutant: only the edges to the tags of the call are deleted.
DeleteTagEdges_OwnTags(tg, its, a) ==
    LET keep == {e \in DOMAIN tg :
                    e[1] \notin Matching(its, a) \/ e[2] \notin Range(a.tags)}
    IN  [e \in keep |-> tg[e]]

\* MATCH (m:MemoryItem {key})-[r:TAGGED_WITH]->() DELETE r
DeleteTagEdges(tg, its, a) ==
    LET keep == {e \in DOMAIN tg : e[1] \notin Matching(its, a)}
    IN  [e \in keep |-> tg[e]]

\* MATCH (m:MemoryItem {key}) MERGE (t:Tag {name}) MERGE (m)-[:TAGGED_WITH]->(t):
\* an edge is created only where none exists.
MergeTagEdge(tg, its, a, name) ==
    tg (+) SetToBag({<<i, name>> : i \in Matching(its, a)} \ DOMAIN tg)

MergeTagNode(tn, its, a, name) ==
    IF Matching(its, a) = {} THEN tn ELSE tn \cup {name}

\* One iteration of `for tag_name in tags`: strip, skip the empty ones.
TagIterEdges(tg, its, a, k) ==
    LET name == Strip(a.tags[k])
    IN  IF name = <<>> THEN tg ELSE MergeTagEdge(tg, its, a, name)

TagIterNodes(tn, its, a, k) ==
    LET name == Strip(a.tags[k])
    IN  IF name = <<>> THEN tn ELSE MergeTagNode(tn, its, a, name)

RECURSIVE TagLoopEdges(_, _, _, _)
TagLoopEdges(tg, its, a, k) ==
    IF k > Len(a.tags) THEN tg
    ELSE TagLoopEdges(TagIterEdges(tg, its, a, k), its, a, k + 1)

RECURSIVE TagLoopNodes(_, _, _, _)
TagLoopNodes(tn, its, a, k) ==
    IF k > Len(a.tags) THEN tn
    ELSE TagLoopNodes(TagIterNodes(tn, its, a, k), its, a, k + 1)

\* MERGE (s:Space {id: $space_id}) and MERGE (s)-[:CONTAINS]->(m), multi-tenant only
MergeSpace(sn, a) == IF a.space_id = None THEN sn ELSE sn \cup a.space_id

MergeContains(ct, a, rows) ==
    IF a.space_id = None THEN ct ELSE ct \cup {<<Get(a.space_id), i>> : i \in rows}

\* The names of the tags on node i, and the bag of its outgoing TAGGED_WITH edges.
TagsOf(tg, i) == {e[2] : e \in {e \in DOMAIN tg : e[1] = i}}

TagBagOf(tg, i) ==
    LET names == TagsOf(tg, i) IN [n \in names |-> tg[<<i, n>>]]

-----------------------------------------------------------------------------
(* History kept for the properties; the program does not read it. *)

HistAfter(h, a, inserted) ==
    LET k == KeyOf(a)
    IN  IF k \in DOMAIN h
        THEN [h EXCEPT ![k].last = a.now, ![k].tags = a.tags, ![k].written = a,
                       ![k].inserts = IF inserted THEN 2 ELSE @]
        ELSE (k :> [first |-> a.now, last |-> a.now, tags |-> a.tags, written |-> a,
                    inserts |-> 1])
             @@ h

-----------------------------------------------------------------------------
(* Bounds and inputs *)

\* The instants the wall clock may return: _now() promises no order.
MaxTime == 2

Times == 1..MaxTime

\* The callers that may have a write_memory call in flight at once.
Procs == {"p1", "p2"}

\* The number of write_memory calls the concurrent callers make in all.
MaxCalls == 3

s_T == <<"T">>

s_A == <<"A">>

s_B == <<"B">>

t_a == <<"a">>

t_b == <<"b">>

\* write_memory's defaults for the optional arguments (lines 258-270)
BaseRequest ==
    [kind            |-> Some(s_note),
     title           |-> s_T,
     content         |-> s_A,
     tags            |-> None,
     pinned          |-> FALSE,
     content_compact |-> None,
     workspace_hint  |-> None,
     importance      |-> None,
     source          |-> None,
     context         |-> None]

\* The calls that race in Spec: two writes of one dedup key that differ in
\* content and tags.
ConcRequests ==
    {[BaseRequest EXCEPT !.content = s_A, !.tags = Some(<<t_a>>)],
     [BaseRequest EXCEPT !.content = s_B, !.tags = Some(<<t_b>>)]}

-----------------------------------------------------------------------------
(* write_memory, statement by statement: every `await session.run(...)` is an *)
(* auto-commit transaction of its own, and other callers run between them.    *)

IdleCall == [pc |-> "idle"]

AllIdle == \A p \in Procs : call[p].pc = "idle"

\* Lines 271-294: normalise the arguments and read the clock.
Begin(p, req, now) ==
    /\ call[p].pc = "idle"
    /\ calls < MaxCalls
    /\ calls' = calls + 1
    /\ call' = [call EXCEPT ![p] =
                   [pc |-> "merge", req |-> req,
                    a |-> Normalize(req, now, multi_tenant),
                    id |-> 0, action |-> "", inserted |-> FALSE, prev |-> None,
                    k |-> 1]]
    /\ UNCHANGED <<multi_tenant, sessionStore, committed, store, hist, last>>

\* Lines 300-375, the MERGE of the MemoryItem.  A matching node is updated in
\* place.  initialize() installs indexes on MemoryItem (kind, title) and
\* (space_id, kind, title) and uniqueness constraints only on Tag, Workspace
\* and Space, so with no matching node the statement has nothing to lock and
\* goes on to create one, whatever other transactions commit meanwhile.
\* result.single() hands back one of the rows.
MergeItem(p) ==
    /\ call[p].pc = "merge"
    /\ LET a == call[p].a
           m == Matching(items, a)
       IN  IF m # {}
           THEN /\ items' = OnMatch(items, a)
                /\ \E i \in m :
                     call' = [call EXCEPT ![p].pc = "untag", ![p].id = i,
                                 ![p].action = merge_action(items'[i], a),
                                 ![p].prev = Some(items[i].updated_at)]
                /\ spaceNodes' = MergeSpace(spaceNodes, a)
                /\ contains' = MergeContains(contains, a, m)
                /\ hist' = HistAfter(hist, a, FALSE)
           ELSE /\ call' = [call EXCEPT ![p].pc = "create"]
                /\ UNCHANGED <<items, spaceNodes, contains, hist>>
    /\ UNCHANGED <<multi_tenant, sessionStore, committed, tagged, tagNodes, calls, last>>

\* The creating half of a MERGE that matched nothing.
CreateItem(p) ==
    /\ call[p].pc = "create"
    /\ LET a == call[p].a
       IN  /\ items' = OnCreate(items, a)
           /\ call' = [call EXCEPT ![p].pc = "untag", ![p].id = Len(items'),
                          ![p].action = merge_action(items'[Len(items')], a),
                          ![p].inserted = TRUE]
           /\ spaceNodes' = MergeSpace(spaceNodes, a)
           /\ contains' = MergeContains(contains, a, {Len(items')})
           /\ hist' = HistAfter(hist, a, TRUE)
    /\ UNCHANGED <<multi_tenant, sessionStore, committed, tagged, tagNodes, calls, last>>

\* Lines 377-390: delete the item's TAGGED_WITH edges.
DeleteTags(p) ==
    /\ call[p].pc = "untag"
    /\ tagged' = DeleteTagEdges(tagged, items, call[p].a)
    /\ call' = [call EXCEPT ![p].pc = "tag", ![p].k = 1]
    /\ UNCHANGED <<multi_tenant, sessionStore, committed, items, tagNodes, spaceNodes,
                   contains, calls, hist, last>>

\* Lines 392-417: one iteration of the loop over tags.
TagStep(p) ==
    /\ call[p].pc = "tag"
    /\ call[p].k <= Len(call[p].a.tags)
    /\ tagged' = TagIterEdges(tagged, items, call[p].a, call[p].k)
    /\ tagNodes' = TagIterNodes(tagNodes, items, call[p].a, call[p].k)
    /\ call' = [call EXCEPT ![p].k = @ + 1]
    /\ UNCHANGED <<multi_tenant, sessionStore, committed, items, spaceNodes, contains,
                   calls, hist, last>>

\* Line 419: return {"ok": True, "action": action, "id": str(item_id)}
Return(p) ==
    /\ call[p].pc = "tag"
    /\ call[p].k > Len(call[p].a.tags)
    /\ last' = [op |-> "write_memory", req |-> call[p].req, now |-> call[p].a.now,
                inserted |-> call[p].inserted, prev |-> call[p].prev,
                result |-> [ok |-> TRUE, action |-> call[p].action, id |-> call[p].id]]
    /\ call' = [call EXCEPT ![p] = IdleCall]
    /\ UNCHANGED <<multi_tenant, sessionStore, committed, store, calls, hist>>

NoOp == [op |-> "none"]

\* write_memory as one step, for callers that do not overlap: the statements
\* above in program order.  (Values are bound with \E over singletons so that
\* each is computed once.)
WriteMemory(req, now) ==
    /\ AllIdle
    /\ \E a \in {Normalize(req, now, multi_tenant)} :
       \E m \in {Matching(items, a)} :
       \E its \in {IF m = {} THEN OnCreate(items, a) ELSE OnMatch(items, a)} :
       \E rows \in {IF m = {} THEN {Len(its)} ELSE m} :
       \E untagged \in {DeleteTagEdges(tagged, its, a)} :
           /\ items' = its
           /\ tagged' = TagLoopEdges(untagged, its, a, 1)
           /\ tagNodes' = TagLoopNodes(tagNodes, its, a, 1)
           /\ spaceNodes' = MergeSpace(spaceNodes, a)
           /\ contains' = MergeContains(contains, a, rows)
           /\ hist' = HistAfter(hist, a, m = {})
           /\ \E i \in rows :
                last' = [op |-> "write_memory", req |-> req, now |-> now,
                         inserted |-> (m = {}),
                         prev |-> IF m = {} THEN None ELSE Some(items[i].updated_at),
                         result |-> [ok |-> TRUE, action |-> merge_action(its[i], a),
                                     id |-> i]]
    /\ UNCHANGED <<multi_tenant, sessionStore, committed, call, calls>>

-----------------------------------------------------------------------------
(* Reads: read_memory and search_memory *)

\* The sequences that list every element of the finite set S once.
Orderings(S) == {f \in [1..Cardinality(S) -> S] : Range(f) = S}

\* OPTIONAL MATCH (m)-[:TAGGED_WITH]->(t:Tag) WITH m, collect(t.name) AS tags:
\* one name for each edge of node i, in an order the store does not promise.
CollectTags(tg, i) ==
    LET edges == UNION {{<<n, c>> : c \in 1..tg[<<i, n>>]} : n \in TagsOf(tg, i)}
    IN  {[k \in DOMAIN o |-> o[k][1]] : o \in Orderings(edges)}

\* One collected tag list for each node of S.
TagChoicesOf(S, collected) ==
    {f \in [S -> UNION Range(collected)] : \A i \in S : f[i] \in collected[i]}

TagChoices(tg, S) == TagChoicesOf(S, [i \in S |-> CollectTags(tg, i)])

\* 1 if r.get("pinned") else 0
PinnedFlag(pinned) == IF pinned THEN 1 ELSE 0

\* The dict read_memory returns for the node m with id i (lines 777-805).
ReadMemoryRecord(m, i, tags, prefer) ==
    LET content_full == m.content
        content_compact == m.content_compact
        content == IF prefer = "compact"
                   THEN IF content_compact # <<>> THEN content_compact
                        ELSE auto_compact(content_full, AUTO_COMPACT_MAX_CHARS)
                   ELSE content_full
    IN  [id              |-> i,
         kind            |-> m.kind,
         title           |-> m.title,
         content         |-> content,
         content_compact |-> content_compact,
         content_full    |-> content_full,
         tags            |-> tags,
         pinned          |-> PinnedFlag(m.pinned),
         updated_at      |-> m.updated_at,
         created_at      |-> m.created_at,
         importance      |-> m.importance,
         workspace_hint  |-> m.workspace_hint,
         source          |-> m.source]

\* read_memory(item_id, prefer, context): MATCH (m:MemoryItem) WHERE
\* elementId(m) = $item_id.  The context is accepted and not used.
ReadMemory(item_id, prefer, context) ==
    /\ AllIdle
    /\ LET rows == {i \in DOMAIN items : i = item_id}
       IN  IF rows = {}
           THEN last' = [op |-> "read_memory",
                         args |-> [item_id |-> item_id, prefer |-> prefer],
                         ctx |-> context, result |-> None]
           ELSE \E i \in rows : \E tags \in CollectTags(tagged, i) :
                   last' = [op |-> "read_memory",
                            args |-> [item_id |-> item_id, prefer |-> prefer],
                            ctx |-> context,
                            result |-> Some(ReadMemoryRecord(items[i], i, tags, prefer))]
    /\ UNCHANGED <<multi_tenant, sessionStore, committed, store, call, calls, hist>>

Clamp(lo, hi, v) == Max({lo, Min({hi, v})})

Digits == {"0", "1", "2", "3", "4", "5", "6", "7", "8", "9"}

WordChars == Range(UpperChars) \cup Range(LowerChars) \cup Digits

\* The terms the full-text analyzer makes of a text: its maximal runs of
\* letters and digits, lowercased.
Tokens(s) ==
    LET t == Lower(s)
    IN  {SubSeq(t, i, j) : <<i, j>> \in
            {<<i, j>> \in (DOMAIN t) \X (DOMAIN t) :
                /\ i <= j
                /\ \A k \in i..j : t[k] \in WordChars
                /\ (i = 1 \/ t[i - 1] \notin WordChars)
                /\ (j = Len(t) \/ t[j + 1] \notin WordChars)}}

\* db.index.fulltext.queryNodes('memory_fulltext', q) rejects a query it
\* cannot parse, such as one with an unbalanced double quote.
FulltextRaises(q) == Cardinality({i \in DOMAIN q : q[i] = "\""}) % 2 = 1

\* A node is a hit of the index on title, content and content_compact when
\* one of the query's terms is a term of one of the three.
FulltextHit(m, q) ==
    Tokens(q) \cap (Tokens(m.title) \cup Tokens(m.content) \cup Tokens(m.content_compact))
        # {}

\* s CONTAINS sub
Contains(s, sub) ==
    \E i \in 0..(Len(s) - Len(sub)) : \A j \in DOMAIN sub : s[i + j] = sub[j]

\* Mutant: the fallback match without toLower.
FallbackHit_CaseSensitive(m, q) ==
    \/ Contains(m.title, q)
    \/ Contains(m.content, q)

\* toLower(m.title) CONTAINS toLower(q) OR toLower(m.content) CONTAINS toLower(q)
FallbackHit(m, q) ==
    \/ Contains(Lower(m.title), Lower(q))
    \/ Contains(Lower(m.content), Lower(q))

\* WHERE node.space_id IN $spaces; spaces is None on the single-tenant store
InSpaces(m, spaces) ==
    \/ spaces = None
    \/ /\ m.space_id # None
       /\ Get(m.space_id) \in Range(Get(spaces))

\* ORDER BY score DESC (an order the index decides) or, in the fallback,
\* ORDER BY m.updated_at DESC; then LIMIT $lim.
SearchOrders(its, hits, fallback, lim) ==
    {SubSeq(o, 1, Min({lim, Len(o)})) : o \in
        {o \in Orderings(hits) :
            fallback => \A k \in 1..(Len(o) - 1) :
                            its[o[k]].updated_at >= its[o[k + 1]].updated_at}}

\* One entry of _format_search_results (lines 718-746)
FormatSearchResult(m, i, tags, prefer, snippet_chars) ==
    LET content_full == m.content
        content_compact == m.content_compact
        content == IF prefer = "compact"
                   THEN IF content_compact # <<>> THEN content_compact
                        ELSE auto_compact(content_full, snippet_chars)
                   ELSE content_full
    IN  [id         |-> i,
         kind       |-> m.kind,
         title      |-> m.title,
         content    |-> content,
         tags       |-> tags,
         pinned     |-> PinnedFlag(m.pinned),
         updated_at |-> m.updated_at,
         has_full   |-> content_full # <<>>]

\* search_memory(query, limit, prefer, snippet_chars, context)
SearchMemory(query, limit, prefer, snippet_chars, context) ==
    /\ AllIdle
    /\ LET q == Strip(OrElse(query, <<>>))
           lim == Clamp(1, 25, limit)
           spaces == IF multi_tenant
                     THEN Some(derive_space_and_allowed(context).allowed)
                     ELSE None
           fallback == FulltextRaises(q)
           hits == {i \in DOMAIN items :
                       /\ IF fallback THEN FallbackHit(items[i], q)
                                      ELSE FulltextHit(items[i], q)
                       /\ InSpaces(items[i], spaces)}
       IN  IF q = <<>>
           THEN last' = [op |-> "search_memory",
                         args |-> [query |-> query, limit |-> limit, prefer |-> prefer,
                                   snippet_chars |-> snippet_chars],
                         ctx |-> context, result |-> <<>>]
           ELSE \E o \in SearchOrders(items, hits, fallback, lim),
                   tf \in TagChoices(tagged, hits) :
                   last' = [op |-> "search_memory",
                            args |-> [query |-> query, limit |-> limit,
                                      prefer |-> prefer,
                                      snippet_chars |-> snippet_chars],
                            ctx |-> context,
                            result |-> [k \in DOMAIN o |->
                                FormatSearchResult(items[o[k]], o[k], tf[o[k]],
                                                   prefer, snippet_chars)]]
    /\ UNCHANGED <<multi_tenant, sessionStore, committed, store, call, calls, hist>>

-----------------------------------------------------------------------------
(* JSON text of a list of strings: json.dumps and json.loads *)

\* The body of a JSON string literal: the quote and the backslash escaped.
RECURSIVE JsonEscape(_)
JsonEscape(s) ==
    IF s = <<>> THEN <<>>
    ELSE (IF Head(s) \in {"\"", "\\"} THEN <<"\\", Head(s)>> ELSE <<Head(s)>>)
         \o JsonEscape(Tail(s))

RECURSIVE JsonJoin(_)
JsonJoin(list) ==
    IF list = <<>> THEN <<>>
    ELSE <<"\"">> \o JsonEscape(Head(list)) \o <<"\"">>
         \o (IF Tail(list) = <<>> THEN <<>> ELSE <<",", " ">>)
         \o JsonJoin(Tail(list))

\* json.dumps(list)
JsonDumps(list) == <<"[">> \o JsonJoin(list) \o <<"]">>

\* Read a string literal whose opening quote precedes position i: its value
\* and the position after its closing quote, 0 when the text ends before.
\* (Of the escapes, the texts here hold the quote, the backslash and the
\* solidus.)
RECURSIVE JsonReadString(_, _, _)
JsonReadString(t, i, acc) ==
    IF i > Len(t) THEN [val |-> acc, next |-> 0]
    ELSE IF t[i] = "\"" THEN [val |-> acc, next |-> i + 1]
    ELSE IF t[i] = "\\"
    THEN IF i + 1 <= Len(t) /\ t[i + 1] \in {"\"", "\\", "/"}
         THEN JsonReadString(t, i + 2, Append(acc, t[i + 1]))
         ELSE [val |-> acc, next |-> 0]
    ELSE JsonReadString(t, i + 1, Append(acc, t[i]))

\* Read the items of a list of strings from position i, `after` the opening
\* bracket ("open"), an item or a comma: the list, or None where the text is
\* not the text of a list of strings.
RECURSIVE JsonReadItems(_, _, _, _)
JsonReadItems(t, i, acc, after) ==
    IF i = 0 \/ i > Len(t) THEN None
    ELSE IF t[i] \in Whitespace THEN JsonReadItems(t, i + 1, acc, after)
    ELSE IF t[i] = "]"
    THEN IF after # "comma" /\ \A k \in (i + 1)..Len(t) : t[k] \in Whitespace
         THEN Some(acc) ELSE None
    ELSE IF t[i] = ","
    THEN IF after = "item" THEN JsonReadItems(t, i + 1, acc, "comma") ELSE None
    ELSE IF t[i] = "\"" /\ after # "item"
    THEN LET r == JsonReadString(t, i + 1, <<>>)
         IN  JsonReadItems(t, r.next, Append(acc, r.val), "item")
    ELSE None

\* json.loads(text) where it yields a list of strings, None where it raises
\* or yields another value
JsonLoadsList(t) ==
    LET body == LStrip(t)
    IN  IF body # <<>> /\ Head(body) = "[" THEN JsonReadItems(body, 2, <<>>, "open")
        ELSE None

\* json.loads(text), for the text json.dumps made of a list of strings
JsonLoads(t) == Get(JsonLoadsList(t))

-----------------------------------------------------------------------------
(* Ranking and shaping of bootstrap items.  Scores are kept as integers:   *)
(* the weights in tenths, the importance term in hundredths, and the       *)
(* recency weight 0.5 ** (age / half-life) in units of 2 ** -MaxTime, the  *)
(* clock ticking once per RECENCY_HALF_LIFE_DAYS.                          *)

\* KIND_WEIGHTS, in tenths
KIND_WEIGHTS ==
    (s_decision :> 14) @@ (s_pattern :> 13) @@ (s_command :> 12) @@ (s_answer :> 11)
    @@ (s_note :> 7)

\* WORKSPACE_MATCH_BOOST and WORKSPACE_MISMATCH_PENALTY, in tenths
WORKSPACE_MATCH_BOOST == 12

WORKSPACE_MISMATCH_PENALTY == 8

HYBRID_FULL_KINDS == {s_command, s_pattern}

HYBRID_FULL_MAX_CHARS == 300

\* _recency_weight(updated_at): 0.5 ** (max(now - updated_at, 0) / half-life)
recency_weight(updated_at, now) == 2 ^ (MaxTime - Min({MaxTime, Max({now - updated_at, 0})}))

\* item.get("importance", 50) or 50: the stored 0 is falsy
score_importance(importance) == IF importance = 0 THEN 50 ELSE importance

\* _score_item(item, workspace_hint), scored at the instant `now`
score_item(item, workspace_hint, now) ==
    LET w_kind == IF item.kind \in DOMAIN KIND_WEIGHTS THEN KIND_WEIGHTS[item.kind] ELSE 7
        w_recency == recency_weight(item.updated_at, now)
        importance == score_importance(item.importance)
        item_workspace == OrElse(item.workspace_hint, <<>>)
        w_workspace ==
            IF workspace_hint # <<>> /\ workspace_hint # s_global /\ item_workspace # <<>>
            THEN IF item_workspace = workspace_hint
                 THEN WORKSPACE_MATCH_BOOST
                 ELSE WORKSPACE_MISMATCH_PENALTY
            ELSE 10
    IN  w_kind * w_recency * (50 + importance) * w_workspace

\* content_compact or _auto_compact(content_full)
thin_content(item) ==
    IF item.content_compact # <<>>
    THEN item.content_compact
    ELSE auto_compact(item.content, AUTO_COMPACT_MAX_CHARS)

\* Mutant: hybrid mode without the test of the kind.
select_content_for_mode_AnyKind(item, mode) ==
    IF mode = "full" THEN item.content
    ELSE IF mode = "hybrid"
    THEN IF Len(item.content) <= HYBRID_FULL_MAX_CHARS
         THEN item.content
         ELSE thin_content(item)
    ELSE thin_content(item)

\* _select_content_for_mode(item, mode)
select_content_for_mode(item, mode) ==
    IF mode = "full" THEN item.content
    ELSE IF mode = "hybrid"
    THEN IF item.kind \in HYBRID_FULL_KINDS /\ Len(item.content) <= HYBRID_FULL_MAX_CHARS
         THEN item.content
         ELSE thin_content(item)
    ELSE thin_content(item)

\* _format_bootstrap_item(raw, content_text), for the node m with id i
format_bootstrap_item(m, i, tags, content_text) ==
    [id         |-> i,
     kind       |-> m.kind,
     title      |-> m.title,
     content    |-> content_text,
     tags       |-> JsonDumps(tags),
     updated_at |-> m.updated_at,
     has_full   |-> (m.content # <<>> /\ m.content # content_text)]

\* The rows of MATCH ... ORDER BY m.updated_at DESC LIMIT $limit over the
\* nodes S: equal timestamps come in an order the store does not promise.
OrderedByUpdated(its, S, limit) ==
    {SubSeq(o, 1, Min({limit, Len(o)})) : o \in
        {o \in Orderings(S) :
            \A k \in 1..(Len(o) - 1) : its[o[k]].updated_at >= its[o[k + 1]].updated_at}}

\* The elements of seq at the positions idx lists, in that order.
Pick(seq, idx) == [k \in DOMAIN idx |-> seq[idx[k]]]

\* list.sort(key=..., reverse=True): descending by key, equal keys in their
\* original order.  key[k] is the key of seq[k].
StableSortDesc(seq, key) ==
    Pick(seq,
         CHOOSE p \in {q \in [DOMAIN seq -> DOMAIN seq] : Range(q) = DOMAIN seq} :
             \A a, b \in DOMAIN seq :
                 a < b => \/ key[p[a]] > key[p[b]]
                          \/ (key[p[a]] = key[p[b]] /\ p[a] < p[b]))

\* Mutant: FillRecent ending the scan at the first candidate that does not
\* fit.
RECURSIVE FillRecent_StopsAtMisfit(_, _, _, _, _, _)
FillRecent_StopsAtMisfit(cost, k, used, remaining_slots, budget, admitted) ==
    IF k > Len(cost) \/ remaining_slots <= 0 THEN admitted
    ELSE IF budget # None /\ used + cost[k] > Get(budget)
    THEN admitted
    ELSE FillRecent_StopsAtMisfit(cost, k + 1, used + cost[k], remaining_slots - 1,
                                  budget, Append(admitted, k))

\* Mutant: FillRecent without the budget test of line 689.
RECURSIVE FillRecent_NoBudget(_, _, _, _, _, _)
FillRecent_NoBudget(cost, k, used, remaining_slots, budget, admitted) ==
    IF k > Len(cost) \/ remaining_slots <= 0 THEN admitted
    ELSE FillRecent_NoBudget(cost, k + 1, used + cost[k], remaining_slots - 1, budget,
                             Append(admitted, k))

\* The "Fill recent with budget" loop (lines 684-695) from candidate k on:
\* the positions of the candidates it admits.  budget is None when
\* max_tokens is not positive.
RECURSIVE FillRecent(_, _, _, _, _, _)
FillRecent(cost, k, used, remaining_slots, budget, admitted) ==
    IF k > Len(cost) \/ remaining_slots <= 0 THEN admitted
    ELSE IF budget # None /\ used + cost[k] > Get(budget)
    THEN FillRecent(cost, k + 1, used, remaining_slots, budget, admitted)
    ELSE FillRecent(cost, k + 1, used + cost[k], remaining_slots - 1, budget,
                    Append(admitted, k))

RECURSIVE SumSeq(_)
SumSeq(q) == IF q = <<>> THEN 0 ELSE Head(q) + SumSeq(Tail(q))

-----------------------------------------------------------------------------
(* Sessions: commit_session and last_session *)

\* Sessions of workspace ws, and of the space in multi-tenant mode:
\* (prev:Session)-[:IN_WORKSPACE]->(w) WHERE prev.space_id = $space_id
SessionsOf(ss, ws, space_id) ==
    {j \in DOMAIN ss : ss[j].workspace_hint = ws /\ ss[j].space_id = space_id}

\* Mutant: SessionsByCreated in ascending order.
SessionsByCreated_Ascending(ss, S, limit) ==
    {SubSeq(o, 1, Min({limit, Len(o)})) : o \in
        {o \in Orderings(S) :
            \A k \in 1..(Len(o) - 1) : ss[o[k]].created_at <= ss[o[k + 1]].created_at}}

\* ORDER BY created_at DESC LIMIT $limit over the sessions S
SessionsByCreated(ss, S, limit) ==
    {SubSeq(o, 1, Min({limit, Len(o)})) : o \in
        {o \in Orderings(S) :
            \A k \in 1..(Len(o) - 1) : ss[o[k]].created_at >= ss[o[k + 1]].created_at}}

\* CREATE (s:Session {...})
NewSession(ws, summary, decisions, next_steps, now, space_id) ==
    [workspace_hint |-> ws,
     summary        |-> summary,
     decisions      |-> JsonDumps(decisions),
     next_steps     |-> JsonDumps(next_steps),
     created_at     |-> now,
     space_id       |-> space_id]

\* commit_session(workspace_hint, summary, decisions, next_steps, context),
\* one statement: the new Session follows the most recent other Session of
\* its workspace (and space), if there is one.
CommitSession(c, now) ==
    /\ AllIdle
    /\ \E ws \in {Strip(OrElse(c.workspace_hint, s_global))} :
       \E space_id \in {IF multi_tenant
                        THEN Some(derive_space_and_allowed(c.context).space_id)
                        ELSE None} :
       \E prevs \in {SessionsByCreated(sessions, SessionsOf(sessions, ws, space_id), 1)} :
           /\ sessions' = Append(sessions,
                              NewSession(ws, Strip(OrElse(c.summary, <<>>)),
                                         OrElse(c.decisions, <<>>),
                                         OrElse(c.next_steps, <<>>), now, space_id))
           /\ \E prev \in prevs :
                 follows' = follows \cup {<<Len(sessions) + 1, prev[k]>> : k \in DOMAIN prev}
           /\ workspaceNodes' = workspaceNodes \cup {ws}
           /\ spaceNodes' = spaceNodes \cup space_id
           /\ committed' = Append(committed, c)
           /\ last' = [op |-> "commit_session", args |-> c, now |-> now,
                       id |-> Len(sessions) + 1, result |-> [ok |-> TRUE]]
    /\ UNCHANGED <<multi_tenant, items, tagged, tagNodes, contains, call, calls, hist>>

\* Mutant: FormatSession without json.loads, the lists as their stored texts.
FormatSession_StoredText(s, j) ==
    [id             |-> j,
     created_at     |-> s.created_at,
     workspace_hint |-> s.workspace_hint,
     summary        |-> s.summary,
     decisions      |-> s.decisions,
     next_steps     |-> s.next_steps]

\* One record of the list last_session returns (lines 934-954)
FormatSession(s, j) ==
    [id             |-> j,
     created_at     |-> s.created_at,
     workspace_hint |-> s.workspace_hint,
     summary        |-> s.summary,
     decisions      |-> JsonLoads(s.decisions),
     next_steps     |-> JsonLoads(s.next_steps)]

\* The lists last_session(workspace_hint, limit, context) may return.
LastSessionResults(ss, mt, workspace_hint, limit, context) ==
    LET ws == Strip(OrElse(workspace_hint, s_global))
        lim == Clamp(1, 10, limit)
        allowed == derive_space_and_allowed(context).allowed
        S == {j \in DOMAIN ss :
                 /\ ss[j].workspace_hint = ws
                 /\ mt => /\ ss[j].space_id # None
                          /\ Get(ss[j].space_id) \in Range(allowed)}
    IN  {[k \in DOMAIN o |-> FormatSession(ss[o[k]], o[k])] :
            o \in SessionsByCreated(ss, S, lim)}

LastSession(workspace_hint, limit, context) ==
    /\ AllIdle
    /\ \E result \in LastSessionResults(sessions, multi_tenant, workspace_hint, limit,
                                        context) :
          last' = [op |-> "last_session",
                   args |-> [workspace_hint |-> workspace_hint, limit |-> limit,
                             context |-> context],
                   ctx |-> context, result |-> result]
    /\ UNCHANGED <<multi_tenant, store, sessionStore, committed, call, calls, hist>>

-----------------------------------------------------------------------------
(* bootstrap *)

\* Lines 657-665: the recent candidates, without the pinned rows, by score.
RankCandidates(its, recent_candidates, workspace_hint, now) ==
    StableSortDesc(recent_candidates,
                   [k \in DOMAIN recent_candidates |->
                       score_item(its[recent_candidates[k]], workspace_hint, now)])

\* Mutant: the pinned rows stay among the recent candidates.
RankRecent_KeepsPinned(its, pinned_raw, recent_raw, workspace_hint, now) ==
    RankCandidates(its, recent_raw, workspace_hint, now)

\* Lines 658-665: the recent rows that are not pinned rows, ranked.
RankRecent(its, pinned_raw, recent_raw, workspace_hint, now) ==
    RankCandidates(its, SelectSeq(recent_raw, LAMBDA i : i \notin Range(pinned_raw)),
                   workspace_hint, now)

\* Lines 673-695: the ids of the pinned and of the recent items emitted, given
\* the shaped content of every row.
\* Mutant: EmitWithCost giving the recent items max_items slots of their own.
EmitWithCost_OwnSlots(pinned_raw, ranked, cost, max_tokens, max_items, n_pinned) ==
    [pinned |-> SubSeq(pinned_raw, 1, n_pinned),
     recent |-> Pick(ranked,
                     FillRecent([k \in DOMAIN ranked |-> cost[ranked[k]]], 1,
                                SumSeq([k \in 1..n_pinned |-> cost[pinned_raw[k]]]),
                                max_items,
                                IF max_tokens > 0 THEN Some(max_tokens * 4) ELSE None,
                                <<>>))]

\* Mutant: EmitWithCost holding the pinned rows to the budget too.
EmitWithCost_PinnedBudgeted(pinned_raw, ranked, cost, max_tokens, max_items, n_pinned) ==
    [pinned |-> SelectSeq(SubSeq(pinned_raw, 1, n_pinned),
                          LAMBDA i : max_tokens > 0 => cost[i] <= max_tokens * 4),
     recent |-> <<>>]

EmitWithCost(pinned_raw, ranked, cost, max_tokens, max_items, n_pinned) ==
    [pinned |-> SubSeq(pinned_raw, 1, n_pinned),
     recent |-> Pick(ranked,
                     FillRecent([k \in DOMAIN ranked |-> cost[ranked[k]]], 1,
                                SumSeq([k \in 1..n_pinned |-> cost[pinned_raw[k]]]),
                                max_items - n_pinned,
                                IF max_tokens > 0 THEN Some(max_tokens * 4) ELSE None,
                                <<>>))]

Emit(its, pinned_raw, ranked, content_text, max_tokens, max_items) ==
    EmitWithCost(pinned_raw, ranked,
                 [i \in DOMAIN content_text |-> Len(content_text[i]) + Len(its[i].title)],
                 max_tokens, max_items, Min({Len(pinned_raw), max_items}))

FormatLists(its, tf, content_text, ids) ==
    [pinned |-> [k \in DOMAIN ids.pinned |->
                    format_bootstrap_item(its[ids.pinned[k]], ids.pinned[k],
                                          tf[ids.pinned[k]], content_text[ids.pinned[k]])],
     recent |-> [k \in DOMAIN ids.recent |->
                    format_bootstrap_item(its[ids.recent[k]], ids.recent[k],
                                          tf[ids.recent[k]], content_text[ids.recent[k]])]]

ShapedLists(its, tf, pinned_raw, ranked, content_text, max_tokens, max_items) ==
    FormatLists(its, tf, content_text,
                Emit(its, pinned_raw, ranked, content_text, max_tokens, max_items))

\* Lines 657-697: the pinned and recent lists made of the rows the two
\* queries returned, the tags tf collected for each node, at the instant now.
BootstrapLists(its, pinned_raw, recent_raw, tf, workspace_hint, mode, max_tokens, max_items, now) ==
    ShapedLists(its, tf, pinned_raw,
                RankRecent(its, pinned_raw, recent_raw, workspace_hint, now),
                [i \in Range(pinned_raw) \cup Range(recent_raw) |->
                    select_content_for_mode(its[i], mode)],
                max_tokens, max_items)

\* bootstrap(limit_pinned, limit_recent, workspace_hint, mode, max_tokens,
\* max_items, include_sessions, context), with the arguments in the record b
Bootstrap(b, now) ==
    /\ AllIdle
    /\ \E limit_pinned \in {Clamp(0, 25, b.limit_pinned)} :
       \E limit_recent \in {Clamp(0, 50, b.limit_recent)} :
       \E max_items \in {Clamp(1, 50, b.max_items)} :
       \E workspace_hint \in {Strip(OrElse(b.workspace_hint, s_global))} :
       \E spaces \in {IF multi_tenant
                      THEN Some(derive_space_and_allowed(b.context).allowed)
                      ELSE None} :
       \E visible \in {{i \in DOMAIN items : InSpaces(items[i], spaces)}} :
       \E pinned_raw \in OrderedByUpdated(items, {i \in visible : items[i].pinned},
                                          limit_pinned) :
       \E recent_raw \in OrderedByUpdated(items, visible,
                                          Max({limit_recent * 3, max_items * 2})) :
       \E tf \in TagChoices(tagged, visible) :
       \E lists \in {BootstrapLists(items, pinned_raw, recent_raw, tf, workspace_hint,
                                    b.mode, b.max_tokens, max_items, now)} :
          IF b.include_sessions
          THEN \E session_records \in
                      LastSessionResults(sessions, multi_tenant, Some(workspace_hint), 1,
                                         b.context) :
                  last' = [op |-> "bootstrap", args |-> b, ctx |-> b.context, now |-> now,
                           result |-> [pinned |-> lists.pinned, recent |-> lists.recent,
                                       last_session |->
                                           IF session_records # <<>>
                                           THEN Some(session_records[1])
                                           ELSE None]]
          ELSE last' = [op |-> "bootstrap", args |-> b, ctx |-> b.context, now |-> now,
                        result |-> lists]
    /\ UNCHANGED <<multi_tenant, store, sessionStore, committed, call, calls, hist>>

\* The state after construction and initialize(): an empty graph.
EmptyGraph ==
    /\ items = <<>>
    /\ tagged = EmptyBag
    /\ tagNodes = {}
    /\ spaceNodes = {}
    /\ contains = {}
    /\ sessions = <<>>
    /\ follows = {}
    /\ workspaceNodes = {}
    /\ call = [p \in Procs |-> IdleCall]
    /\ calls = 0
    /\ hist = <<>>
    /\ committed = <<>>

EmptyStore ==
    /\ EmptyGraph
    /\ last = NoOp

-----------------------------------------------------------------------------
(* Spec: two overlapping writers on the default, single-tenant store *)

Init ==
    /\ multi_tenant = FALSE
    /\ EmptyStore

CallBegins == \E p \in Procs, req \in ConcRequests, now \in Times : Begin(p, req, now)

Merges == \E p \in Procs : MergeItem(p)

Creates == \E p \in Procs : CreateItem(p)

Untags == \E p \in Procs : DeleteTags(p)

Tags == \E p \in Procs : TagStep(p)

Returns == \E p \in Procs : Return(p)

Next == CallBegins \/ Merges \/ Creates \/ Untags \/ Tags \/ Returns

Spec == Init /\ [][Next]_vars

-----------------------------------------------------------------------------
(* SeqSpec: one caller at a time, in either tenancy mode *)

s_U == <<"U">>

s_spaceA == <<"s", "p", "A">>

CtxA == Some([user_id |-> None, space_id |-> Some(s_spaceA), allowed_spaces |-> None])

\* Tag lists as callers supply them: absent, repeated, padded, blank.
TagLists ==
    {None, Some(<<t_a>>), Some(<<t_a, t_a>>),
     Some(<<t_b, <<" ", "a", " ">>, <<" ">> >>)}

\* Two dedup keys per mode: two titles on the single-tenant store, one title in
\* two spaces on the multi-tenant one.  A padded title is the same key.
SeqRequests(mt) ==
    {[BaseRequest EXCEPT !.title = t, !.tags = tg, !.context = c] :
        t \in (IF mt THEN {s_T} ELSE {s_T, s_U}),
        tg \in TagLists,
        c \in (IF mt THEN {None, CtxA} ELSE {None})}
    \cup
    {[BaseRequest EXCEPT !.title = <<" ", "T">>]}

SeqInit ==
    /\ multi_tenant \in BOOLEAN
    /\ EmptyStore

SeqWrite == \E req \in SeqRequests(multi_tenant), now \in Times : WriteMemory(req, now)

SeqNext == SeqWrite

SeqSpec == SeqInit /\ [][SeqNext]_vars

-----------------------------------------------------------------------------
(* NormSpec: one caller at a time on the default store, raw arguments of *)
(* every shape                                                           *)

s_bogus == <<"b", "o", "g", "u", "s">>

\* Raw kinds with the kind the documentation asks the store to hold for each.
KindCases ==
    {[raw |-> None, stored |-> s_note],
     [raw |-> Some(s_bogus), stored |-> s_note],
     [raw |-> Some(<<"D", "e", "c", "i", "s", "i", "o", "n">>), stored |-> s_decision],
     [raw |-> Some(<<" ", "N", "O", "T", "E", " ">>), stored |-> s_note],
     [raw |-> Some(s_decision), stored |-> s_decision]}

RawImportances == {None, Some(-1), Some(0), Some(37), Some(100), Some(101)}

\* A content longer than AUTO_COMPACT_MAX_CHARS, with a sentence end in its
\* second half.
s_long == Rep("x", 150) \o <<".", " ">> \o Rep("y", 60)

RawContents == {<<>>, s_A, <<" ", "B", " ">>, s_long}

RawCompacts == {Some(<<>>), Some(<<" ", " ">>), Some(<<"c", " ">>)}

\* Each normalisation is its own statement of write_memory: the requests
\* vary the kind, the importance, the content, and the content_compact of an
\* empty and of a non-empty content, one at a time over the defaults.
NormRequests ==
    {[BaseRequest EXCEPT !.kind = kc.raw] : kc \in KindCases}
    \cup
    {[BaseRequest EXCEPT !.importance = imp] : imp \in RawImportances}
    \cup
    {[BaseRequest EXCEPT !.content = c] : c \in RawContents}
    \cup
    {[BaseRequest EXCEPT !.content = c, !.content_compact = cc] :
        c \in {<<>>, s_A}, cc \in RawCompacts}

NormWrite == \E req \in NormRequests, now \in Times : WriteMemory(req, now)

NormNext == NormWrite

NormSpec == Init /\ [][NormNext]_vars

-----------------------------------------------------------------------------
(* IsoSpec: writers and readers of two spaces on the multi-tenant store *)

s_spaceB == <<"s", "p", "B">>

CtxB == Some([user_id |-> None, space_id |-> Some(s_spaceB),
              allowed_spaces |-> Some(<<s_spaceB>>)])

\* A content on which the full-text query "a fails to parse and the fallback
\* query matches.
s_quoted == <<"\"", "a">>

\* Contexts as do_POST builds them from the X-Space-Id header, and none.
IsoContexts == {None, CtxA, CtxB}

IsoRequests ==
    {[BaseRequest EXCEPT !.content = s_A, !.tags = Some(<<t_a>>), !.context = ctx] :
        ctx \in {CtxA, CtxB}}
    \cup
    {[BaseRequest EXCEPT !.content = s_quoted, !.context = ctx] : ctx \in {CtxA, CtxB}}

Queries == {None, Some(t_a), Some(s_quoted), Some(s_T)}

IsoInit ==
    /\ multi_tenant = TRUE
    /\ EmptyStore

IsoWrite == \E req \in IsoRequests, now \in Times : WriteMemory(req, now)

IsoRead ==
    \E item_id \in DOMAIN items \cup {0}, prefer \in {"full", "compact"},
       context \in IsoContexts :
        ReadMemory(item_id, prefer, context)

IsoSearch ==
    \E query \in Queries, limit \in {1, 8}, prefer \in {"full", "compact"},
       context \in IsoContexts :
        SearchMemory(query, limit, prefer, 400, context)

IsoNext == IsoWrite \/ IsoRead \/ IsoSearch

IsoSpec == IsoInit /\ [][IsoNext]_vars

-----------------------------------------------------------------------------
(* BootSpec: three items, each written once, and bootstrap calls of every *)
(* shape on the default store                                              *)

s_V == <<"V">>

s_BB == <<"B", "B">>

s_CCC == <<"C", "C", "C">>

s_c == <<"c">>

s_w == <<"w">>

\* A pinned or unpinned note, a command, and a note with its own compact
\* text and workspace: titles of one character, contents of one to three.
BootRequests ==
    {[BaseRequest EXCEPT !.pinned = p] : p \in BOOLEAN}
    \cup
    {[BaseRequest EXCEPT !.kind = Some(s_command), !.title = s_U, !.content = s_BB,
                         !.tags = Some(<<t_a>>)],
     [BaseRequest EXCEPT !.title = s_V, !.content = s_CCC, !.content_compact = Some(s_c),
                         !.workspace_hint = Some(s_w)]}

\* bootstrap's defaults (lines 556-566)
BaseBootstrap ==
    [limit_pinned     |-> 8,
     limit_recent     |-> 10,
     workspace_hint   |-> Some(s_global),
     mode             |-> "full",
     max_tokens       |-> 0,
     max_items        |-> 15,
     include_sessions |-> FALSE,
     context          |-> None]

\* The calls vary the limits, the mode with the token budget, the workspace
\* and the session flag, one at a time over the defaults.
BootCalls ==
    {[BaseBootstrap EXCEPT !.limit_pinned = n] : n \in {-1, 1}}
    \cup
    {[BaseBootstrap EXCEPT !.limit_recent = n] : n \in {0, 1}}
    \cup
    {[BaseBootstrap EXCEPT !.max_items = n] : n \in {0, 1, 2}}
    \cup
    {[BaseBootstrap EXCEPT !.mode = m, !.max_tokens = t] :
        m \in {"full", "hybrid", "thin"}, t \in {0, 1, 2}}
    \cup
    {[BaseBootstrap EXCEPT !.workspace_hint = w] : w \in {None, Some(s_w)}}
    \cup
    {[BaseBootstrap EXCEPT !.include_sessions = TRUE]}

\* bootstrap leaves the store as it is: every store and every result is
\* reached with the bootstrap call last, and the specification stops there.
BootOpen == last.op # "bootstrap"

\* A key is written once in this specification, so that the store holds up
\* to three items without the histories of their rewrites.
BootWrite ==
    \E req \in BootRequests, now \in Times :
        /\ BootOpen
        /\ Matching(items, Normalize(req, now, multi_tenant)) = {}
        /\ WriteMemory(req, now)

BootBootstrap ==
    \E b \in BootCalls, now \in Times :
        /\ BootOpen
        /\ Bootstrap(b, now)

BootNext == BootWrite \/ BootBootstrap

BootSpec == Init /\ [][BootNext]_vars

-----------------------------------------------------------------------------
(* ScoreSpec: _score_item applied to one row *)

\* The rows scored: every kind, the importance at its ends, at the default
\* 50 and beside them, with and without a workspace, updated at any instant.
ScoreRows ==
    {[kind |-> k, importance |-> i, workspace_hint |-> w, updated_at |-> t] :
        k \in VALID_KINDS, i \in {0, 1, 49, 50, 100},
        w \in {None, Some(s_w), Some(s_U)}, t \in Times}

ScoreHints == {<<>>, s_global, s_w}

ScoreInit ==
    /\ multi_tenant = FALSE
    /\ EmptyGraph
    /\ \E item \in ScoreRows, workspace_hint \in ScoreHints, now \in Times :
          last = [op |-> "row", item |-> item, workspace_hint |-> workspace_hint,
                  now |-> now]

ScoreItem ==
    /\ last.op = "row"
    /\ last' = [last EXCEPT !.op = "score_item"]
                @@ [result |-> score_item(last.item, last.workspace_hint, last.now)]
    /\ UNCHANGED <<multi_tenant, store, sessionStore, committed, call, calls, hist>>

ScoreNext == ScoreItem

ScoreSpec == ScoreInit /\ [][ScoreNext]_vars

-----------------------------------------------------------------------------
(* SessSpec: commit_session, last_session and bootstrap with its session *)

\* The Session nodes the callers may create.
MaxSessions == 3

s_S == <<"S">>

s_paddedS == <<" ", "S", " ">>

s_backslashed == <<"\\", "b">>

\* commit_session with its optional arguments absent
BaseCommit ==
    [workspace_hint |-> None,
     summary        |-> Some(s_S),
     decisions      |-> None,
     next_steps     |-> None,
     context        |-> None]

\* The commits: the plain one, one in a workspace of its own with a padded
\* summary and lists whose texts need escaping, and one without summary and
\* with an empty list, under the context of another space.
SessCommits ==
    {BaseCommit,
     [BaseCommit EXCEPT !.workspace_hint = Some(s_w), !.summary = Some(s_paddedS),
                        !.decisions = Some(<<s_quoted, t_a>>),
                        !.next_steps = Some(<<s_backslashed>>)],
     [BaseCommit EXCEPT !.summary = None, !.decisions = Some(<<>>),
                        !.next_steps = Some(<<t_b>>), !.context = CtxB]}

\* last_session's calls: the defaults (lines 888-893), then one argument
\* changed at a time.
BaseLastSession == [workspace_hint |-> Some(s_global), limit |-> 3, context |-> None]

SessReads ==
    {BaseLastSession,
     [BaseLastSession EXCEPT !.workspace_hint = None],
     [BaseLastSession EXCEPT !.workspace_hint = Some(s_w)],
     [BaseLastSession EXCEPT !.context = CtxB]}
    \cup
    {[BaseLastSession EXCEPT !.limit = n] : n \in {0, 1, 11}}

SessBootCalls ==
    {BaseBootstrap,
     [BaseBootstrap EXCEPT !.include_sessions = TRUE],
     [BaseBootstrap EXCEPT !.include_sessions = TRUE, !.workspace_hint = Some(s_w)],
     [BaseBootstrap EXCEPT !.include_sessions = TRUE, !.workspace_hint = None],
     [BaseBootstrap EXCEPT !.include_sessions = TRUE, !.context = CtxB]}

SessInit ==
    /\ multi_tenant \in BOOLEAN
    /\ EmptyStore

\* The reads leave the store as it is: every store and every result is
\* reached with the read last.
SessOpen == last.op \in {"none", "commit_session"}

SessCommit ==
    \E c \in SessCommits, now \in Times :
        /\ SessOpen
        /\ Len(sessions) < MaxSessions
        /\ CommitSession(c, now)

SessLast ==
    \E r \in SessReads :
        /\ SessOpen
        /\ LastSession(r.workspace_hint, r.limit, r.context)

\* No item is stored here, so that the instant of a bootstrap call plays no
\* part in its result.
SessBootstrap ==
    \E b \in SessBootCalls :
        /\ SessOpen
        /\ Bootstrap(b, MaxTime)

SessNext == SessCommit \/ SessLast \/ SessBootstrap

SessSpec == SessInit /\ [][SessNext]_vars

-----------------------------------------------------------------------------
(* RoundSpec: writes of two keys, one caller at a time, and reads of them *)

\* The plain write, then one argument changed at a time: a padded content,
\* a compact text of the caller's, an importance, a workspace, and a second
\* key.
RoundRequests ==
    {BaseRequest,
     [BaseRequest EXCEPT !.content = <<" ", "B", " ">>],
     [BaseRequest EXCEPT !.content = s_BB, !.content_compact = Some(<<"c", " ">>)],
     [BaseRequest EXCEPT !.importance = Some(7)],
     [BaseRequest EXCEPT !.workspace_hint = Some(<<" ", "w">>)],
     [BaseRequest EXCEPT !.title = s_U, !.content = s_CCC]}

RoundWrite == \E req \in RoundRequests, now \in Times : WriteMemory(req, now)

\* Reads leave the store as it is and are taken from a state a write left.
RoundRead ==
    \E item_id \in DOMAIN items \cup {0}, prefer \in {"full", "compact"} :
        /\ last.op # "read_memory"
        /\ ReadMemory(item_id, prefer, None)

RoundNext == RoundWrite \/ RoundRead

RoundSpec == Init /\ [][RoundNext]_vars

-----------------------------------------------------------------------------
(* The HTTP dispatcher of server.py: do_POST and handle_tool_call *)

\* The names of TOOLS (lines 72-170)
TOOLS ==
    <<"mnemosyne_bootstrap", "mnemosyne_write", "mnemosyne_read", "mnemosyne_search",
      "mnemosyne_commit_session", "mnemosyne_last_session">>

\* arguments.get(name, default) and arguments.get(name); the arguments are a
\* record of the members the caller sent.
Arg(arguments, name, default) ==
    IF name \in DOMAIN arguments THEN arguments[name] ELSE default

ArgOpt(arguments, name) ==
    IF name \in DOMAIN arguments THEN Some(arguments[name]) ELSE None

\* _ensure_list(val): val is a list, [list |-> l], or a string, [str |-> s]
ensure_list(val) ==
    IF "list" \in DOMAIN val THEN val.list
    ELSE IF JsonLoadsList(val.str) # None THEN Get(JsonLoadsList(val.str))
    ELSE <<>>

\* Lines 287-299: the request context made of the X-User-Id and X-Space-Id
\* headers, each absent (None) or a string.
DispatchContext(user_id, space_id) ==
    Some([user_id        |-> user_id,
          space_id       |-> space_id,
          allowed_spaces |->
              IF space_id # None /\ Get(space_id) # <<>> THEN Some(<<Get(space_id)>>)
              ELSE IF user_id # None /\ Get(user_id) # <<>>
              THEN Some(<<s_personal \o Get(user_id)>>)
              ELSE None])

\* The members handle_tool_call reads with arguments[...], per tool.
RequiredArguments(tool_name) ==
    IF tool_name = "mnemosyne_write" THEN {"kind", "title", "content"}
    ELSE IF tool_name = "mnemosyne_read" THEN {"id"}
    ELSE IF tool_name = "mnemosyne_search" THEN {"query"}
    ELSE IF tool_name = "mnemosyne_commit_session" THEN {"workspace_hint", "summary"}
    ELSE {}

\* handle_tool_call raises: ValueError for a tool it does not know, KeyError
\* for a required member that is missing.
ToolError(tool_name, arguments) ==
    IF tool_name = None \/ Get(tool_name) \notin Range(TOOLS)
    THEN Some(<<"Unknown tool", tool_name>>)
    ELSE IF RequiredArguments(Get(tool_name)) \ DOMAIN arguments # {}
    THEN Some(<<"KeyError", RequiredArguments(Get(tool_name)) \ DOMAIN arguments>>)
    ELSE None

\* handle_tool_call(tool_name, arguments, context), where it does not raise
HandleToolCall(tool_name, arguments, context, now) ==
    \/ /\ tool_name = "mnemosyne_bootstrap"
       /\ Bootstrap([limit_pinned     |-> Arg(arguments, "limit_pinned", 8),
                     limit_recent     |-> Arg(arguments, "limit_recent", 10),
                     workspace_hint   |-> Some(Arg(arguments, "workspace_hint", s_global)),
                     mode             |-> Arg(arguments, "mode", "full"),
                     max_tokens       |-> Arg(arguments, "max_tokens", 0),
                     max_items        |-> Arg(arguments, "max_items", 15),
                     include_sessions |-> Arg(arguments, "include_sessions", FALSE),
                     context          |-> context], now)
    \/ /\ tool_name = "mnemosyne_write"
       /\ WriteMemory([kind            |-> Some(arguments.kind),
                       title           |-> arguments.title,
                       content         |-> arguments.content,
                       tags            |-> Some(ensure_list(Arg(arguments, "tags_json",
                                                                [str |-> <<"[", "]">>]))),
                       pinned          |-> Arg(arguments, "pinned", FALSE),
                       content_compact |-> ArgOpt(arguments, "content_compact"),
                       workspace_hint  |-> ArgOpt(arguments, "workspace_hint"),
                       importance      |-> ArgOpt(arguments, "importance"),
                       source          |-> ArgOpt(arguments, "source"),
                       context         |-> context], now)
    \/ /\ tool_name = "mnemosyne_read"
       /\ ReadMemory(arguments.id, Arg(arguments, "prefer", "full"), context)
    \/ /\ tool_name = "mnemosyne_search"
       /\ SearchMemory(Some(arguments.query), Arg(arguments, "limit", 8),
                       Arg(arguments, "prefer", "full"),
                       Arg(arguments, "snippet_chars", 400), context)
    \/ /\ tool_name = "mnemosyne_commit_session"
       /\ CommitSession([workspace_hint |-> Some(arguments.workspace_hint),
                         summary        |-> Some(arguments.summary),
                         decisions      |-> Some(ensure_list(Arg(arguments, "decisions_json",
                                                                 [str |-> <<"[", "]">>]))),
                         next_steps     |-> Some(ensure_list(Arg(arguments, "next_steps_json",
                                                                 [str |-> <<"[", "]">>]))),
                         context        |-> context], now)
    \/ /\ tool_name = "mnemosyne_last_session"
       /\ LastSession(Some(Arg(arguments, "workspace_hint", s_global)),
                      Arg(arguments, "limit", 3), context)

\* The result do_POST computes for a method other than tools/call (lines
\* 273-284 and 311-312); {} is the empty record.
MethodResult(method) ==
    IF method = Some("initialize")
    THEN [protocolVersion |-> "2024-11-05",
          capabilities    |-> [tools |-> <<>>],
          serverInfo      |-> [name |-> "mnemosyne", version |-> "2.0.0"]]
    ELSE IF method \in {Some("notifications/initialized"), Some("initialized"), Some("ping")}
    THEN <<>>
    ELSE IF method = Some("tools/list")
    THEN [tools |-> TOOLS]
    ELSE [error |-> <<"Unknown method: ", method>>]

\* Lines 314-319 and 323-328: the envelopes sent with status 200 and 500.
ResultResponse(request, result) ==
    [status |-> 200,
     data   |-> [jsonrpc |-> "2.0", id |-> request.id, result |-> result]]

ErrorResponse(id, message) ==
    [status |-> 500,
     data   |-> [jsonrpc |-> "2.0",
                 id      |-> IF id = None THEN Some(1) ELSE id,
                 error   |-> [code |-> -32603, message |-> message]]]

\* The answer to an exchange that called no tool, kept as the last operation.
Answered(h, response) ==
    /\ last' = [op |-> "do_POST", request |-> h, response |-> response]
    /\ UNCHANGED <<multi_tenant, store, sessionStore, committed, call, calls, hist>>

\* MCPHandler.do_POST for the exchange h: its path, its body (None where it
\* is no JSON document, else the request object with the members id, method
\* and params, each None where absent) and the two headers.  A tools/call
\* that does not raise is the storage operation itself, whose record `last`
\* then holds; its answer is the 200 envelope around the text of that result.
DoPost(h, now) ==
    IF h.path # "/mcp"
    THEN Answered(h, [status |-> 404])
    ELSE IF h.body = None
    THEN Answered(h, ErrorResponse(None, <<"JSONDecodeError">>))
    ELSE \E request \in h.body :
            IF request.method # Some("tools/call")
            THEN Answered(h, ResultResponse(request, MethodResult(request.method)))
            ELSE \E params \in {IF request.params = None
                                THEN [name |-> None, arguments |-> None]
                                ELSE Get(request.params)} :
                 \E arguments \in {IF params.arguments = None THEN <<>>
                                   ELSE Get(params.arguments)} :
                 \E raised \in {ToolError(params.name, arguments)} :
                    IF raised # None
                    THEN Answered(h, ErrorResponse(request.id, Get(raised)))
                    ELSE HandleToolCall(Get(params.name), arguments,
                                        DispatchContext(h.user_id, h.space_id), now)

-----------------------------------------------------------------------------
(* HttpSpec: JSON-RPC exchanges with the dispatcher of the default,      *)
(* single-tenant store, one at a time                                   *)

\* A request object and an exchange carrying it to /mcp without headers.
Rpc(id, method, params) == [id |-> id, method |-> method, params |-> params]

Post(body) == [path |-> "/mcp", body |-> body, user_id |-> None, space_id |-> None]

ToolCall(name, arguments) ==
    Post(Some(Rpc(Some(7), Some("tools/call"),
                  Some([name |-> Some(name), arguments |-> Some(arguments)]))))

\* Every method do_POST knows, one it does not, a request without method and
\* requests without id.
MethodExchanges ==
    {Post(Some(Rpc(Some(7), Some(m), None))) :
        m \in {"initialize", "notifications/initialized", "initialized", "ping",
               "tools/list", "resources/list"}}
    \cup
    {Post(Some(Rpc(None, m, None))) : m \in {None, Some("ping"), Some("resources/list")}}

\* A path other than /mcp, a body that is no JSON document, and tools/call
\* without params, without a name, and for a tool that does not exist.
BrokenExchanges ==
    {[Post(Some(Rpc(Some(7), Some("ping"), None))) EXCEPT !.path = "/"],
     Post(None),
     Post(Some(Rpc(Some(7), Some("tools/call"), None))),
     Post(Some(Rpc(None, Some("tools/call"),
                   Some([name |-> None, arguments |-> None])))),
     ToolCall("mnemosyne_forget", <<>>),
     ToolCall("mnemosyne_write", [kind |-> s_note, content |-> s_A]),
     ToolCall("mnemosyne_commit_session", [workspace_hint |-> s_global])}

WriteArguments == [kind |-> s_note, title |-> s_T, content |-> s_A]

\* The tools with their required arguments, then with one optional argument
\* or header each.
ToolExchanges ==
    {ToolCall("mnemosyne_write", WriteArguments),
     ToolCall("mnemosyne_write",
              WriteArguments @@ [tags_json |-> [str |-> JsonDumps(<<t_a, s_quoted>>)]]),
     ToolCall("mnemosyne_write", WriteArguments @@ [tags_json |-> [list |-> <<t_b>>]]),
     ToolCall("mnemosyne_write", WriteArguments @@ [tags_json |-> [str |-> t_a]]),
     [ToolCall("mnemosyne_write", WriteArguments) EXCEPT !.space_id = Some(s_spaceB)],
     [ToolCall("mnemosyne_write", WriteArguments) EXCEPT !.user_id = Some(s_U)],
     ToolCall("mnemosyne_commit_session",
              [workspace_hint |-> s_global, summary |-> s_S,
               decisions_json |-> [str |-> JsonDumps(<<t_a>>)]]),
     ToolCall("mnemosyne_read", [id |-> 1]),
     ToolCall("mnemosyne_read", [id |-> 2, prefer |-> "compact"]),
     ToolCall("mnemosyne_search", [query |-> s_A]),
     [ToolCall("mnemosyne_search", [query |-> s_A, limit |-> 1])
         EXCEPT !.space_id = Some(s_spaceB)],
     ToolCall("mnemosyne_bootstrap", <<>>),
     ToolCall("mnemosyne_bootstrap", [include_sessions |-> TRUE, max_items |-> 1]),
     ToolCall("mnemosyne_last_session", <<>>),
     [ToolCall("mnemosyne_last_session", [limit |-> 1]) EXCEPT !.user_id = Some(s_U)]}

HttpExchanges == MethodExchanges \cup BrokenExchanges \cup ToolExchanges

\* Exchange h is a tools/call of the tool.
CallsTool(h, tool_name) ==
    IF h.body = None THEN FALSE
    ELSE IF Get(h.body).method # Some("tools/call") \/ Get(h.body).params = None THEN FALSE
    ELSE Get(Get(h.body).params).name = Some(tool_name)

\* An exchange that changed nothing is answered and the specification goes
\* no further from it; commit_session is called while the store has room.
HttpOpen == last.op \in {"none", "write_memory", "commit_session"}

HttpPost ==
    \E h \in HttpExchanges, now \in Times :
        /\ HttpOpen
        /\ CallsTool(h, "mnemosyne_commit_session") => Len(sessions) < MaxSessions
        /\ DoPost(h, now)

HttpNext == HttpPost

HttpSpec == Init /\ [][HttpNext]_vars

-----------------------------------------------------------------------------
(* FallSpec: searches whose full-text query fails to parse, in either      *)
(* tenancy mode                                                            *)

s_quote == <<"\"">>

s_QA == <<"\"", "A">>

\* Four keys per mode, each written once: the quoted text in the content in
\* either case, in the title, and nowhere; on the multi-tenant store one of
\* them in the space "global" and the others in spB.
FallRequests(mt) ==
    {[BaseRequest EXCEPT !.content = s_quoted, !.context = c] :
        c \in (IF mt THEN {None, CtxB} ELSE {None})}
    \cup
    {[BaseRequest EXCEPT !.title = s_U, !.content = s_QA,
                         !.context = IF mt THEN CtxB ELSE None],
     [BaseRequest EXCEPT !.title = s_quoted, !.content = s_B,
                         !.context = IF mt THEN CtxB ELSE None]}
    \cup
    (IF mt THEN {} ELSE {[BaseRequest EXCEPT !.title = s_V]})

\* search_memory's defaults (lines 421-428) over a query that fails to parse
BaseSearch ==
    [query |-> Some(s_quoted), limit |-> 8, prefer |-> "full", snippet_chars |-> 400,
     context |-> None]

\* The calls vary the query, the limit, the preference and the context, one
\* at a time; the query "a" parses and takes the primary path.
FallSearches(mt) ==
    {[BaseSearch EXCEPT !.query = q] :
        q \in {Some(<<" ", "\"", "A", " ">>), Some(s_quote), Some(t_a)}}
    \cup
    {[BaseSearch EXCEPT !.query = Some(s_quote), !.limit = n] : n \in {0, 2}}
    \cup
    {[BaseSearch EXCEPT !.prefer = "compact"]}
    \cup
    {[BaseSearch EXCEPT !.query = Some(s_QA), !.context = c] :
        c \in (IF mt THEN {CtxA, CtxB} ELSE {None})}

FallInit ==
    /\ multi_tenant \in BOOLEAN
    /\ EmptyStore

FallOpen == last.op # "search_memory"

FallWrite ==
    \E req \in FallRequests(multi_tenant), now \in Times :
        /\ FallOpen
        /\ Matching(items, Normalize(req, now, multi_tenant)) = {}
        /\ WriteMemory(req, now)

FallSearch ==
    \E c \in FallSearches(multi_tenant) :
        /\ FallOpen
        /\ SearchMemory(c.query, c.limit, c.prefer, c.snippet_chars, c.context)

FallNext == FallWrite \/ FallSearch

FallSpec == FallInit /\ [][FallNext]_vars

-----------------------------------------------------------------------------
(* ShapeSpec: one item of any kind and length, and bootstrap in each mode *)

\* Contents at and beyond HYBRID_FULL_MAX_CHARS
s_x300 == Rep("x", HYBRID_FULL_MAX_CHARS)

s_x301 == Rep("x", HYBRID_FULL_MAX_CHARS + 1)

\* The item written: its kind against the length of its content, and its
\* content against the compact text the caller supplies, pinned or not.
ShapeRequests ==
    {[BaseRequest EXCEPT !.kind = Some(k), !.content = c, !.pinned = p] :
        k \in {s_note, s_command, s_pattern}, c \in {s_A, s_x300, s_x301},
        p \in BOOLEAN}
    \cup
    {[BaseRequest EXCEPT !.content = c, !.content_compact = cc, !.pinned = p] :
        c \in {<<>>, s_A, s_long}, cc \in {Some(<<>>), Some(s_c)}, p \in BOOLEAN}
    \cup
    {[BaseRequest EXCEPT !.kind = Some(s_command), !.content = c,
                         !.content_compact = Some(s_c)] : c \in {s_x300, s_x301}}

ShapeCalls == {[BaseBootstrap EXCEPT !.mode = m] : m \in {"full", "hybrid", "thin"}}

ShapeWrite ==
    \E req \in ShapeRequests, now \in Times :
        /\ items = <<>>
        /\ WriteMemory(req, now)

ShapeBootstrap ==
    \E b \in ShapeCalls :
        /\ last.op = "write_memory"
        /\ Bootstrap(b, MaxTime)

ShapeNext == ShapeWrite \/ ShapeBootstrap

ShapeSpec == Init /\ [][ShapeNext]_vars

-----------------------------------------------------------------------------
(* PinSpec: several pinned items of growing cost, and bootstrap under a   *)
(* token budget, in either tenancy mode                                   *)

\* A content that costs more than the budget of one token by itself.
s_DDDD == Rep("D", 4)

\* Three pinned notes per mode, each written once: all on the one store, or
\* one in the space "global" and two in spB on the multi-tenant store.
PinRequests(mt) ==
    {[BaseRequest EXCEPT !.pinned = TRUE, !.context = c] :
        c \in (IF mt THEN {None, CtxB} ELSE {None})}
    \cup
    {[BaseRequest EXCEPT !.title = s_U, !.content = s_DDDD, !.pinned = TRUE,
                         !.context = IF mt THEN CtxB ELSE None]}
    \cup
    (IF mt THEN {}
     ELSE {[BaseRequest EXCEPT !.title = s_V, !.content = s_CCC, !.pinned = TRUE]})

\* The calls vary limit_pinned and max_items, each without a budget and
\* under the budget of one token; on the multi-tenant store the caller is of
\* spB, or of the space "global" in one call.
PinCalls(mt) ==
    {[BaseBootstrap EXCEPT !.limit_pinned = n, !.max_tokens = t,
                           !.context = IF mt THEN CtxB ELSE None] :
        n \in {-1, 1, 2, 8}, t \in {0, 1}}
    \cup
    {[BaseBootstrap EXCEPT !.max_items = n, !.max_tokens = t,
                           !.context = IF mt THEN CtxB ELSE None] :
        n \in {0, 1, 2}, t \in {0, 1}}
    \cup
    (IF mt THEN {[BaseBootstrap EXCEPT !.max_tokens = 1]} ELSE {})

PinWrite ==
    \E req \in PinRequests(multi_tenant), now \in Times :
        /\ BootOpen
        /\ Matching(items, Normalize(req, now, multi_tenant)) = {}
        /\ WriteMemory(req, now)

PinBootstrap ==
    \E b \in PinCalls(multi_tenant) :
        /\ BootOpen
        /\ Bootstrap(b, MaxTime)

PinNext == PinWrite \/ PinBootstrap

PinSpec == SeqInit /\ [][PinNext]_vars

-----------------------------------------------------------------------------
(* CrashSpec: calls one after the other on one key, statement by          *)
(* statement, any of which may be cut short after its upsert              *)

\* The call of p is interrupted (its connection lost, its task cancelled)
\* after the upsert statement has committed: before the DELETE of the edges,
\* between two statements of the tag loop, or before the return.  Every
\* statement already run was an auto-commit transaction and stays.  The
\* caller gets no result and does not come back.
Interrupt(p) ==
    /\ call[p].pc \in {"untag", "tag"}
    /\ call' = [call EXCEPT ![p].pc = "interrupted"]
    /\ last' = [op |-> "interrupted", req |-> call[p].req, now |-> call[p].a.now,
                id |-> call[p].id]
    /\ UNCHANGED <<multi_tenant, sessionStore, committed, store, calls, hist>>

\* Writes of one key that differ in every scalar and in their tags.
CrashRequests ==
    {[BaseRequest EXCEPT !.tags = Some(<<t_a, t_b>>), !.pinned = TRUE,
                         !.importance = Some(37), !.source = Some(s_U),
                         !.workspace_hint = Some(s_w),
                         !.content_compact = Some(s_c)],
     [BaseRequest EXCEPT !.content = s_B, !.tags = Some(<<t_b>>)],
     BaseRequest}

\* No call is under way.
Quiet == \A p \in Procs : call[p].pc \in {"idle", "interrupted"}

CrashBegin ==
    \E p \in Procs, req \in CrashRequests, now \in Times :
        /\ Quiet
        /\ Begin(p, req, now)

CrashInterrupt == \E p \in Procs : Interrupt(p)

CrashNext ==
    CrashBegin \/ Merges \/ Creates \/ Untags \/ Tags \/ Returns \/ CrashInterrupt

CrashSpec == Init /\ [][CrashNext]_vars

-----------------------------------------------------------------------------
(* FrameSpec: every operation of the store, on two dedup keys and the     *)
(* sessions of one workspace, in either tenancy mode                      *)

\* The writes of CrashRequests on the key (note, T), and two writes of a
\* second key with a tag: another title on the single-tenant store, the
\* same kind and title in spB on the multi-tenant one.
FrameRequests(mt) ==
    CrashRequests
    \cup
    {[BaseRequest EXCEPT !.title = IF mt THEN s_T ELSE s_U, !.content = c,
                         !.tags = Some(<<t_a>>),
                         !.context = IF mt THEN CtxB ELSE None] : c \in {s_A, s_B}}

\* The reads leave the store as it is and end a behaviour.
FrameOpen == last.op \in {"none", "write_memory", "commit_session"}

\* The writes read the first or the last instant of the clock.
FrameWrite ==
    \E req \in FrameRequests(multi_tenant), now \in {1, MaxTime} :
        /\ FrameOpen
        /\ WriteMemory(req, now)

\* The sessions are committed at successive instants.
FrameCommit ==
    /\ FrameOpen
    /\ Len(sessions) < MaxTime
    /\ CommitSession(BaseCommit, Len(sessions) + 1)

FrameRead ==
    \E item_id \in DOMAIN items :
        /\ FrameOpen
        /\ ReadMemory(item_id, "full", None)

FrameSearch ==
    /\ FrameOpen
    /\ SearchMemory(Some(s_T), 8, "full", 400, None)

FrameBootstrap ==
    /\ FrameOpen
    /\ Bootstrap([BaseBootstrap EXCEPT !.include_sessions = TRUE], MaxTime)

FrameLast ==
    /\ FrameOpen
    /\ LastSession(BaseLastSession.workspace_hint, BaseLastSession.limit, None)

FrameNext ==
    FrameWrite \/ FrameCommit \/ FrameRead \/ FrameSearch \/ FrameBootstrap \/ FrameLast

FrameSpec == SeqInit /\ [][FrameNext]_vars

-----------------------------------------------------------------------------
(* TenantSpec: one caller context per call on the multi-tenant store: a   *)
(* write, or a search or a bootstrap that ends the behaviour              *)

s_bob == <<"b", "o", "b">>

\* A context whose explicit allowed_spaces list leaves out its own space.
CtxSplit == Some([user_id |-> None, space_id |-> Some(s_spaceA),
                  allowed_spaces |-> Some(<<s_spaceB>>)])

\* The header values do_POST reads: absent, a name, or a name followed by a
\* blank (the header parser drops the blanks before a value and keeps the
\* ones after it).
SpaceHeaders == {None, Some(s_spaceA), Some(s_spaceA \o <<" ">>)}

UserHeaders == {None, Some(s_bob), Some(s_bob \o <<" ">>)}

\* The contexts handed to the storage directly, and the ones do_POST builds
\* of one header.
TenantContexts ==
    {None, CtxA, CtxB, CtxSplit}
    \cup {DispatchContext(None, h) : h \in SpaceHeaders}
    \cup {DispatchContext(h, None) : h \in UserHeaders}

TenantOpen == last.op \in {"none", "write_memory"}

TenantWrite ==
    \E context \in TenantContexts :
        /\ TenantOpen
        /\ WriteMemory([BaseRequest EXCEPT !.context = context], 1)

TenantSearch ==
    \E context \in TenantContexts :
        /\ TenantOpen
        /\ SearchMemory(Some(s_T), 8, "full", 400, context)

TenantBootstrap ==
    \E context \in TenantContexts :
        /\ TenantOpen
        /\ Bootstrap([BaseBootstrap EXCEPT !.context = context], MaxTime)

TenantNext == TenantWrite \/ TenantSearch \/ TenantBootstrap

TenantSpec == IsoInit /\ [][TenantNext]_vars

-----------------------------------------------------------------------------
(* Properties *)

ItemKey(m) == [space_id |-> m.space_id, kind |-> m.kind, title |-> m.title]

ItemsOfKey(k) == {i \in DOMAIN items : ItemKey(items[i]) = k}

\* The trimmed non-empty tags of a supplied list, as a set and as a bag.
SuppliedTagNames(tags) == {Strip(tags[i]) : i \in DOMAIN tags} \ {<<>>}

SuppliedTagBag(tags) ==
    [n \in SuppliedTagNames(tags) |->
        Cardinality({i \in DOMAIN tags : Strip(tags[i]) = n})]

LastWrote == last.op = "write_memory"

LastItem == items[last.result.id]

\* C1 (SeqSpec): after any sequence of sequential writes every written dedup
\* key has exactly one MemoryItem, whose updated_at is the timestamp of the
\* last write to the key and whose created_at is that of the first.
C1_OneItemPerKey ==
    /\ \A i \in DOMAIN items : ItemKey(items[i]) \in DOMAIN hist
    /\ \A k \in DOMAIN hist :
          /\ Cardinality(ItemsOfKey(k)) = 1
          /\ \A i \in ItemsOfKey(k) :
                /\ items[i].updated_at = hist[k].last
                /\ items[i].created_at = hist[k].first

\* C1 witness: two keys are stored and one was rewritten at a later instant.
C1_Witness ==
    /\ Cardinality(DOMAIN hist) = 2
    /\ \E k \in DOMAIN hist : hist[k].first < hist[k].last

\* C2 (Spec), as claimed: once all concurrent calls have returned, every
\* written dedup key has exactly one MemoryItem.
C2_OneItemAfterRace ==
    AllIdle => \A k \in DOMAIN hist : Cardinality(ItemsOfKey(k)) = 1

\* C3 (SeqSpec), as claimed: after a completed write the multiset of the
\* item's TAGGED_WITH edges equals the multiset of trimmed non-empty tags
\* supplied.
C3_TagMultiset ==
    LastWrote =>
        TagBagOf(tagged, last.result.id) = SuppliedTagBag(OrElse(last.req.tags, <<>>))

\* C3 amended (SeqSpec): after a completed write the item has exactly one
\* TAGGED_WITH edge for each distinct trimmed non-empty tag supplied, and no
\* other edge.
C3_TagSet ==
    LastWrote =>
        /\ TagsOf(tagged, last.result.id) = SuppliedTagNames(OrElse(last.req.tags, <<>>))
        /\ \A n \in TagsOf(tagged, last.result.id) : tagged[<<last.result.id, n>>] = 1

\* C3 witness: a rewrite of an existing item that supplied a repeated tag.
C3_Witness ==
    /\ LastWrote
    /\ ~last.inserted
    /\ last.req.tags = Some(<<t_a, t_a>>)
    /\ TagsOf(tagged, last.result.id) = {t_a}

\* C4 (Spec), as claimed: once two concurrent writes of one key have returned,
\* the item's tags are those of the write whose upsert was applied last.
C4_TagsOfLastUpsert ==
    AllIdle =>
        \A k \in DOMAIN hist :
            Cardinality(ItemsOfKey(k)) = 1 =>
                \A i \in ItemsOfKey(k) :
                    TagsOf(tagged, i) = SuppliedTagNames(hist[k].tags)

\* The ids of the items the last operation returned, if it was a read.
ReturnedIds ==
    IF last.op = "read_memory" THEN {r.id : r \in last.result}
    ELSE IF last.op = "search_memory" THEN {last.result[k].id : k \in DOMAIN last.result}
    ELSE {}

\* C5 (IsoSpec), as claimed: on the multi-tenant store a read issued under
\* a space returns no item of a space that is neither the reader's own nor
\* among the reader's allowed spaces.
C5_NoForeignItem ==
    multi_tenant =>
        \A i \in ReturnedIds :
            LET d == derive_space_and_allowed(last.ctx)
            IN  Get(items[i].space_id) \in Range(d.allowed) \cup {d.space_id}

\* Beside C5: search_memory, which filters on $spaces, keeps to the reader's
\* allowed spaces; the foreign items come from read_memory.
SearchKeepsToAllowed == last.op = "search_memory" => C5_NoForeignItem

\* C6 (Spec), as claimed: a call whose upsert met an existing item reports
\* "updated", and a call reports "created" only if its upsert inserted the item.
C6_CreatedOnlyOnInsert ==
    LastWrote =>
        /\ ~last.inserted => last.result.action = "updated"
        /\ last.result.action = "created" => last.inserted

\* C6 amended (Spec): a call reports "created" exactly when the created_at of
\* the item it returns equals the timestamp the call read; so a call that
\* inserted the item reports "created", and a call that met an existing item
\* reports "updated" unless its timestamp equals the item's created_at.
C6_CreatedIffSameInstant ==
    LastWrote =>
        /\ last.result.action \in {"created", "updated"}
        /\ last.result.action = "created" <=> LastItem.created_at = last.now
        /\ last.inserted => last.result.action = "created"

\* C6 witness: a call that met an existing item and reported "created".
C6_Witness ==
    /\ LastWrote
    /\ ~last.inserted
    /\ last.result.action = "created"

\* C7 (SeqSpec), as claimed: every write sets updated_at strictly above the
\* item's previous updated_at, and created_at <= updated_at always holds.
C7_StrictlyIncreasing ==
    /\ \A i \in DOMAIN items : items[i].created_at <= items[i].updated_at
    /\ (LastWrote /\ last.prev # None) => LastItem.updated_at > Get(last.prev)

\* C7 amended (SeqSpec): every write sets updated_at to the timestamp the call
\* read from the clock and leaves created_at at the first write's timestamp;
\* updated_at rises above its previous value exactly when the clock returned a
\* later instant than the previous write's, and created_at <= updated_at
\* holds exactly when the call's timestamp is not before the first write's.
C7_StampedWithNow ==
    LastWrote =>
        /\ LastItem.updated_at = last.now
        /\ LastItem.created_at = hist[ItemKey(LastItem)].first
        /\ last.prev = None => LastItem.created_at = last.now
        /\ last.prev # None =>
              (LastItem.updated_at > Get(last.prev) <=> last.now > Get(last.prev))
        /\ LastItem.created_at <= LastItem.updated_at
              <=> hist[ItemKey(LastItem)].first <= last.now

\* C7 witness: a rewrite at an instant before the item's previous updated_at.
C7_Witness ==
    /\ LastWrote
    /\ last.prev # None
    /\ last.now < Get(last.prev)
    /\ LastItem.updated_at < LastItem.created_at

\* C8 (NormSpec), as claimed: every stored item with a non-empty content has a
\* non-empty content_compact.
C8_CompactNonEmpty ==
    \A i \in DOMAIN items :
        items[i].content # <<>> => items[i].content_compact # <<>>

\* C9 (NormSpec): every stored kind is one of the five valid kinds; a write
\* stores the lowercased kind when that is valid and "note" otherwise, and
\* the write succeeds whatever the kind.
C9_KindNormalised ==
    /\ \A i \in DOMAIN items : items[i].kind \in VALID_KINDS
    /\ LastWrote =>
          /\ last.result.ok
          /\ \A kc \in KindCases :
                last.req.kind = kc.raw => LastItem.kind = kc.stored

\* C9 witness: a write with an unknown kind succeeded and stored a note.
C9_Witness ==
    /\ LastWrote
    /\ last.req.kind = Some(s_bogus)
    /\ last.result.ok
    /\ LastItem.kind = s_note

\* C10 (NormSpec): every stored importance is an integer in [0,100]; a write
\* stores 50 when none is supplied, 0 below 0, 100 above 100, and the supplied
\* value otherwise.
C10_ImportanceClamped ==
    /\ \A i \in DOMAIN items : items[i].importance \in 0..100
    /\ LastWrote =>
          LET imp == last.req.importance
          IN  LastItem.importance =
                IF imp = None THEN 50
                ELSE IF Get(imp) < 0 THEN 0
                ELSE IF Get(imp) > 100 THEN 100
                ELSE Get(imp)

\* C10 witness: a write that supplied an importance below 0 stored 0.
C10_Witness ==
    /\ LastWrote
    /\ last.req.importance = Some(-1)
    /\ LastItem.importance = 0

LastBoot == last.op = "bootstrap"

\* The items of a bootstrap list that are pinned in the store.
PinnedItems == {i \in DOMAIN items : items[i].pinned}

\* len(title) + len(shaped content) of an emitted item
EmittedCost(r) == Len(r.title) + Len(r.content)

\* C11 (BootSpec), as claimed: the pinned list has at most limit_pinned items
\* and the recent list at most limit_recent items, the limits clamped to
\* [0,25] and [0,50].
C11_ListLimits ==
    LastBoot =>
        /\ Len(last.result.pinned) <= Max({0, Min({25, last.args.limit_pinned})})
        /\ Len(last.result.recent) <= Max({0, Min({50, last.args.limit_recent})})

\* Beside C11: the half of the claim about the pinned list holds.
PinnedListLimit ==
    LastBoot => Len(last.result.pinned) <= Max({0, Min({25, last.args.limit_pinned})})

\* C12 (BootSpec): with max_tokens > 0 the costs len(title) + len(content) of
\* the returned recent items sum to at most max_tokens * 4.
C12_RecentWithinBudget ==
    (LastBoot /\ last.args.max_tokens > 0) =>
        SumSeq([k \in DOMAIN last.result.recent |-> EmittedCost(last.result.recent[k])])
            <= last.args.max_tokens * 4

\* C12 witness: a budgeted call with a pinned item that admitted one recent
\* item and passed over another although a slot was left.
C12_Witness ==
    /\ LastBoot
    /\ last.args.max_tokens > 0
    /\ Len(last.result.pinned) = 1
    /\ Len(last.result.recent) = 1
    /\ Len(items) = 3
    /\ last.args.max_items = 15

\* C13 (BootSpec): the pinned and the recent items returned are together at
\* most max_items (clamped to [1,50]), and the pinned rows take their slots
\* first: as many of them are returned as the limit, the slots and the store
\* allow, whatever recent items there are.
C13_SlotsPinnedFirst ==
    LastBoot =>
        LET max_items == Max({1, Min({50, last.args.max_items})})
            limit_pinned == Max({0, Min({25, last.args.limit_pinned})})
        IN  /\ Len(last.result.pinned) + Len(last.result.recent) <= max_items
            /\ Len(last.result.pinned)
                  = Min({max_items, limit_pinned, Cardinality(PinnedItems)})
            /\ \A k \in DOMAIN last.result.pinned : last.result.pinned[k].id \in PinnedItems

\* C13 witness: one slot, a pinned and an unpinned item in the store: the
\* pinned item is returned and no recent one.
C13_Witness ==
    /\ LastBoot
    /\ last.args.max_items = 1
    /\ Len(items) >= 2
    /\ Len(last.result.pinned) = 1
    /\ last.result.recent = <<>>

\* The items a search or a bootstrap returned last.
ReturnedItems ==
    IF last.op = "search_memory" THEN Range(last.result)
    ELSE IF last.op = "bootstrap"
    THEN Range(last.result.pinned) \cup Range(last.result.recent)
    ELSE {}

\* C14 (IsoSpec), as claimed: in every item that search_memory or bootstrap
\* returns, has_full is true exactly when the stored content is non-empty and
\* differs from the content returned.
C14_HasFullIffReduced ==
    \A r \in ReturnedItems :
        r.has_full <=> (items[r.id].content # <<>> /\ items[r.id].content # r.content)

\* Beside C14: it holds of bootstrap; the items that break it come from
\* search_memory.
BootstrapHasFull == LastBoot => C14_HasFullIffReduced

LastScored == last.op = "score_item"

\* The score of the row scored last, had its importance been i.
ScoreWith(i) ==
    score_item([last.item EXCEPT !.importance = i], last.workspace_hint, last.now)

\* C15 (ScoreSpec), as claimed: of two rows that differ in importance alone,
\* the one of higher importance has the strictly higher score, importance 0
\* included.
C15_ScoreRisesWithImportance ==
    LastScored =>
        \A i2 \in 0..100 : last.item.importance < i2 => last.result < ScoreWith(i2)

\* Beside C15: the score rises with the importance from importance 1 on.
ScoreRisesFromOne ==
    (LastScored /\ last.item.importance >= 1) =>
        \A i2 \in 0..100 : last.item.importance < i2 => last.result < ScoreWith(i2)

\* The Sessions of the workspace and space of Session j.
SessionGroup(j) ==
    {i \in DOMAIN sessions :
        /\ sessions[i].workspace_hint = sessions[j].workspace_hint
        /\ sessions[i].space_id = sessions[j].space_id}

\* The FOLLOWS edges among the Sessions G are one chain along the order o.
ChainAlong(G, o) ==
    {e \in follows : e[1] \in G /\ e[2] \in G}
        = {<<o[k + 1], o[k]>> : k \in 1..(Len(o) - 1)}

\* C16 (SessSpec), as claimed: the FOLLOWS edges among the Sessions of one
\* workspace (and space) are a single chain in the order of created_at: each
\* Session has at most one outgoing and one incoming edge, and each but the
\* oldest follows its immediate predecessor.
C16_FollowsIsChain ==
    \A j \in DOMAIN sessions :
        \E o \in Orderings(SessionGroup(j)) :
            /\ \A k \in 1..(Len(o) - 1) :
                  sessions[o[k]].created_at <= sessions[o[k + 1]].created_at
            /\ ChainAlong(SessionGroup(j), o)

\* Beside C16: a Session never has two outgoing FOLLOWS edges, and FOLLOWS
\* stays within one workspace and space.
FollowsOneAtMost ==
    /\ \A e1, e2 \in follows : e1[1] = e2[1] => e1 = e2
    /\ \A e \in follows : e[2] \in SessionGroup(e[1]) /\ e[2] < e[1]

LastListed == last.op = "last_session"

\* The workspace a last_session or bootstrap call asks for.
AskedWorkspace(workspace_hint) == Strip(OrElse(workspace_hint, s_global))

\* The Sessions of workspace ws that a call under context ctx may see.
VisibleSessions(ws, ctx) ==
    {j \in DOMAIN sessions :
        /\ sessions[j].workspace_hint = ws
        /\ multi_tenant =>
              \E k \in DOMAIN derive_space_and_allowed(ctx).allowed :
                  sessions[j].space_id = Some(derive_space_and_allowed(ctx).allowed[k])}

\* Record r is Session j as committed: the summary trimmed, the two lists
\* element for element, an absent list as the empty one.
AsCommitted(r, j) ==
    /\ r.id = j
    /\ r.created_at = sessions[j].created_at
    /\ r.workspace_hint = AskedWorkspace(committed[j].workspace_hint)
    /\ r.summary = Strip(IF committed[j].summary = None THEN <<>>
                         ELSE Get(committed[j].summary))
    /\ r.decisions = (IF committed[j].decisions = None THEN <<>>
                      ELSE Get(committed[j].decisions))
    /\ r.next_steps = (IF committed[j].next_steps = None THEN <<>>
                       ELSE Get(committed[j].next_steps))

\* The records of a last_session result: Sessions of the workspace asked
\* for, each once, in descending created_at, at most clamp(limit, 1, 10) and
\* no fewer than the workspace has to give, each as committed.
ListedNewestFirst ==
    LET V == VisibleSessions(AskedWorkspace(last.args.workspace_hint), last.args.context)
        n == Max({1, Min({10, last.args.limit})})
        r == last.result
    IN  /\ Len(r) = Min({n, Cardinality(V)})
        /\ \A k \in DOMAIN r : r[k].id \in V /\ AsCommitted(r[k], r[k].id)
        /\ \A k, l \in DOMAIN r : k < l =>
              r[k].id # r[l].id /\ r[k].created_at >= r[l].created_at
        /\ \A k \in DOMAIN r : \A j \in V :
              (\A l \in DOMAIN r : r[l].id # j) => sessions[j].created_at <= r[k].created_at

\* C18 (SessSpec), as claimed: last_session returns the Sessions of the
\* workspace in descending created_at, at most clamp(limit, 1, 10), and the
\* first record is the Session committed last in the workspace, with its
\* summary and lists.
C18_FirstIsLastCommitted ==
    LastListed =>
        /\ ListedNewestFirst
        /\ last.result # <<>> =>
              last.result[1].id
                  = Max(VisibleSessions(AskedWorkspace(last.args.workspace_hint),
                                        last.args.context))

\* C18, corrected: the list is as claimed and its first record is a Session
\* of the greatest created_at in the workspace, as it was committed; it is
\* the Session committed last when that one's created_at exceeds the
\* created_at of every other Session the call may see.
C18_FirstIsNewestStamp ==
    LastListed =>
        /\ ListedNewestFirst
        /\ LET V == VisibleSessions(AskedWorkspace(last.args.workspace_hint),
                                    last.args.context)
           IN  (V # {} /\ \A j \in V \ {Max(V)} :
                              sessions[j].created_at < sessions[Max(V)].created_at)
                   => last.result[1].id = Max(V)

\* C18 witness: three Sessions in the workspace, the last one committed with
\* lists whose texts need escaping and at the latest instant, listed first of
\* three.
C18_Witness ==
    /\ LastListed
    /\ Len(last.result) = 3
    /\ last.result[1].id = 3
    /\ last.result[1].decisions = <<s_quoted, t_a>>
    /\ last.result[1].next_steps = <<s_backslashed>>
    /\ last.result[1].created_at > last.result[2].created_at

BootstrapSessionNull ==
    /\ LastBoot
    /\ last.args.include_sessions
    /\ sessions # <<>>
    /\ last.result.last_session = None

\* The record a read returned agrees with write w in the four fields.
ReadsBack(r, w) ==
    /\ r.content = w.content
    /\ r.content_compact = w.content_compact
    /\ r.importance = w.importance
    /\ r.workspace_hint = w.workspace_hint

\* C17 (RoundSpec): a write of a key written before returns the id of the
\* item that holds the key, so that all writes of a key return one id; and
\* read_memory with that id and prefer = "full" returns the content (trimmed),
\* content_compact, importance and workspace_hint of the last write of the
\* key.
C17_ReadsLastWrite ==
    [][/\ last'.op = "write_memory" =>
             LET k == KeyOf(Normalize(last'.req, last'.now, multi_tenant))
             IN  /\ k \in DOMAIN hist => ItemsOfKey(k) = {last'.result.id}
                 /\ hist'[k].written.content = Strip(last'.req.content)
       /\ (last'.op = "read_memory" /\ last'.args.prefer = "full"
               /\ last'.args.item_id \in DOMAIN items) =>
             /\ last'.result # None
             /\ Get(last'.result).id = last'.args.item_id
             /\ ReadsBack(Get(last'.result),
                          hist[ItemKey(items[last'.args.item_id])].written)]_vars

\* C17 witness: a key was written again at a later instant, with importance
\* 7, and a full read of its id returned that write's content and importance.
C17_Witness ==
    /\ last.op = "read_memory"
    /\ last.args.prefer = "full"
    /\ last.result # None
    /\ Get(last.result).content = s_A
    /\ Get(last.result).importance = 7
    /\ Get(last.result).created_at < Get(last.result).updated_at

KnownMethods ==
    {"initialize", "notifications/initialized", "initialized", "ping", "tools/list",
     "tools/call"}

\* The last exchange reached /mcp with a request whose method do_POST does
\* not know.
UnknownMethodAnswered ==
    /\ last.op = "do_POST"
    /\ last.request.path = "/mcp"
    /\ last.request.body # None
    /\ \A m \in KnownMethods : Get(last.request.body).method # Some(m)

\* C20 (HttpSpec), as claimed: a request with a method do_POST does not know
\* is answered with status 500 and an envelope that has an error member and
\* no result member.
C20_UnknownMethodIsError ==
    UnknownMethodAnswered =>
        /\ last.response.status = 500
        /\ "error" \in DOMAIN last.response.data
        /\ "result" \notin DOMAIN last.response.data

\* Beside C20: an exchange that calls no tool leaves the graph as it is.
AnsweredKeepsStore == [][last'.op = "do_POST" => UNCHANGED <<store, sessionStore>>]_vars

\* Beside C20: a body that is no JSON document and a tools/call that raises
\* are answered with status 500 and an error member.
RaisedIsError ==
    (last.op = "do_POST" /\ last.request.path = "/mcp" /\ ~UnknownMethodAnswered
        /\ (last.request.body = None
              \/ Get(last.request.body).method = Some("tools/call")))
        => /\ last.response.status = 500
           /\ "error" \in DOMAIN last.response.data

-----------------------------------------------------------------------------
(* search_memory when the full-text query raises *)

LastSearch == last.op = "search_memory"

\* The query of the last search as search_memory uses it, and its limit.
SearchedText == Strip(OrElse(last.args.query, <<>>))

SearchedLimit == Max({1, Min({25, last.args.limit})})

\* The last search took the fallback path.
FellBack == LastSearch /\ SearchedText # <<>> /\ FulltextRaises(SearchedText)

\* The items whose title or content contains the text, whatever the case.
ContainingItems(text) ==
    {i \in DOMAIN items :
        \/ Contains(Lower(items[i].title), Lower(text))
        \/ Contains(Lower(items[i].content), Lower(text))}

\* The items the caller of the last operation may see.
VisibleItems ==
    {i \in DOMAIN items :
        multi_tenant =>
            /\ items[i].space_id # None
            /\ Get(items[i].space_id) \in
                   Range(derive_space_and_allowed(last.ctx).allowed)}

SearchResultFields ==
    {"id", "kind", "title", "content", "tags", "pinned", "updated_at", "has_full"}

\* C21: a search whose full-text query raises returns, with the fields of
\* the primary path, the items visible to the caller whose title or content
\* contains the query case-insensitively, newest update first, cut to the
\* clamped limit; and no search changes the store.
C21_FallbackSearch ==
    /\ [](FellBack =>
            LET r == last.result
                M == ContainingItems(SearchedText) \cap VisibleItems
            IN  /\ Len(r) = Min({SearchedLimit, Cardinality(M)})
                /\ \A k \in DOMAIN r :
                      /\ DOMAIN r[k] = SearchResultFields
                      /\ r[k].id \in M
                      /\ r[k].kind = items[r[k].id].kind
                      /\ r[k].title = items[r[k].id].title
                      /\ r[k].updated_at = items[r[k].id].updated_at
                /\ \A j, k \in DOMAIN r : j < k =>
                      /\ r[j].id # r[k].id
                      /\ r[j].updated_at >= r[k].updated_at
                /\ \A i \in M : \A k \in DOMAIN r :
                      i \notin {r[j].id : j \in DOMAIN r} =>
                          items[i].updated_at <= r[k].updated_at)
    /\ [][last'.op = "search_memory" =>
              /\ store' = store
              /\ sessionStore' = sessionStore]_vars

\* A fallback search on the multi-tenant store that returns two items or
\* more, one of them matching in another case than the query's, while an
\* item of another space contains the query too.
C21_Witness ==
    /\ FellBack
    /\ multi_tenant
    /\ Len(last.result) >= 2
    /\ ContainingItems(SearchedText) \ VisibleItems # {}
    /\ \E k \in DOMAIN last.result :
          /\ ~Contains(items[last.result[k].id].title, SearchedText)
          /\ ~Contains(items[last.result[k].id].content, SearchedText)

-----------------------------------------------------------------------------
(* The content bootstrap emits in each mode *)

\* The thin form of a stored item: its compact text, or the compact form of
\* its content when it has none.
ThinForm(m) ==
    IF m.content_compact # <<>> THEN m.content_compact
    ELSE auto_compact(m.content, AUTO_COMPACT_MAX_CHARS)

\* The items of both lists of the last bootstrap.
EmittedItems == Range(last.result.pinned) \cup Range(last.result.recent)

\* C22: every item bootstrap emits carries the stored content in mode full;
\* in mode hybrid the stored content when it is a command or a pattern of at
\* most 300 characters and the thin form otherwise; in mode thin the thin
\* form.
C22_ContentPerMode ==
    LastBoot =>
        \A r \in EmittedItems :
            LET m == items[r.id]
            IN  r.content =
                    CASE last.args.mode = "full" -> m.content
                      [] last.args.mode = "hybrid" ->
                            IF m.kind \in {s_command, s_pattern} /\ Len(m.content) <= 300
                            THEN m.content
                            ELSE ThinForm(m)
                      [] last.args.mode = "thin" -> ThinForm(m)

\* Bootstrap in mode hybrid emits a command of exactly 300 characters in
\* full although its compact text is shorter.
C22_Witness ==
    /\ LastBoot
    /\ last.args.mode = "hybrid"
    /\ \E r \in EmittedItems :
          /\ items[r.id].kind = s_command
          /\ Len(items[r.id].content) = 300
          /\ r.content = items[r.id].content
          /\ items[r.id].content_compact # items[r.id].content

\* In mode hybrid a command of 301 characters and a note of any length are
\* emitted in their thin form.
HybridThinsTheRest ==
    LastBoot /\ last.args.mode = "hybrid" =>
        \A r \in EmittedItems :
            (Len(items[r.id].content) > 300 \/ items[r.id].kind = s_note) =>
                r.content = ThinForm(items[r.id])

-----------------------------------------------------------------------------
(* Pinned items and the token budget *)

\* The ids a bootstrap list names, in the order of the list.
ListIds(list) == [k \in DOMAIN list |-> list[k].id]

\* The pinned items the caller of the last operation may see.
VisiblePinned == PinnedItems \cap VisibleItems

\* limit_pinned and max_items of the last bootstrap after their clamps
AskedPinned == Max({0, Min({25, last.args.limit_pinned})})

AskedItems == Max({1, Min({50, last.args.max_items})})

\* C23: whatever max_tokens is, the pinned list of a bootstrap holds the
\* first min(limit_pinned, max_items) pinned items visible to the caller,
\* newest update first: as many as that or all there are, each once, none
\* updated before a visible pinned item that was left out.
C23_PinnedIgnoreBudget ==
    LastBoot =>
        LET ids == ListIds(last.result.pinned)
        IN  /\ Len(ids) = Min({AskedPinned, AskedItems, Cardinality(VisiblePinned)})
            /\ Range(ids) \subseteq VisiblePinned
            /\ \A j, k \in DOMAIN ids : j < k =>
                  /\ ids[j] # ids[k]
                  /\ items[ids[j]].updated_at >= items[ids[k]].updated_at
            /\ \A i \in VisiblePinned \ Range(ids) : \A k \in DOMAIN ids :
                  items[i].updated_at <= items[ids[k]].updated_at

\* Under a budget of one token (four characters) bootstrap returns two
\* pinned items, one of which costs more than the budget by itself, on a
\* store with a pinned item of another space.
C23_Witness ==
    /\ LastBoot
    /\ last.args.max_tokens = 1
    /\ Len(last.result.pinned) = 2
    /\ \E k \in DOMAIN last.result.pinned : EmittedCost(last.result.pinned[k]) > 4
    /\ PinnedItems \ VisibleItems # {}

-----------------------------------------------------------------------------
(* The budget and the cost of the pinned items *)

\* The last bootstrap ran under a budget, and its budget in characters.
Budgeted == LastBoot /\ last.args.max_tokens > 0

BudgetChars == last.args.max_tokens * 4

\* The summed cost of the first n items of a bootstrap list.
CostOfFirst(list, n) == SumSeq([k \in 1..n |-> EmittedCost(list[k])])

PinnedCost == CostOfFirst(last.result.pinned, Len(last.result.pinned))

\* What item i costs in the mode of the last bootstrap.
CostInMode(i) ==
    Len(items[i].title) + Len(select_content_for_mode(items[i], last.args.mode))

\* The items the recent scan went through and left out, on a store small
\* enough for the over-fetch to return every item, when slots remained to
\* the end of the scan.
LeftOut ==
    IF /\ Len(last.result.pinned) + Len(last.result.recent) < AskedItems
       /\ Len(items) <= 2 * AskedItems
    THEN VisibleItems \ (Range(ListIds(last.result.pinned))
                         \cup Range(ListIds(last.result.recent)))
    ELSE {}

\* Item i did not fit when the scan reached it, the scan starting with
\* `charged` characters used: the recent items admitted before it, with
\* `charged` and its own cost, exceeded the budget.
DidNotFit(i, charged) ==
    \E n \in 0..Len(last.result.recent) :
        charged + CostOfFirst(last.result.recent, n) + CostInMode(i) > BudgetChars

\* C24: the pinned items' cost is not charged to the budget, so a candidate
\* is left out only when the recent items admitted before it, with its own
\* cost, exceed the budget.
C24_PinnedNotCharged == Budgeted => \A i \in LeftOut : DidNotFit(i, 0)

\* What the scan does: it starts with the cost of the emitted pinned items
\* used.  Every recent item was admitted within the budget counted from
\* there, and a candidate is left out only when the pinned items, the recent
\* items admitted before it and its own cost exceed the budget.
PinnedCostCharged ==
    Budgeted =>
        /\ \A n \in 1..Len(last.result.recent) :
              PinnedCost + CostOfFirst(last.result.recent, n) <= BudgetChars
        /\ \A i \in LeftOut : DidNotFit(i, PinnedCost)

-----------------------------------------------------------------------------
(* The recent scan: skip and continue *)

\* The score the last bootstrap gave item i.
BootScore(i) == score_item(items[i], AskedWorkspace(last.args.workspace_hint), last.now)

\* The candidates of the last bootstrap's recent scan that it did not
\* return, on a store small enough for the over-fetch to return every item.
AbsentCandidates ==
    IF Len(items) <= 2 * AskedItems
    THEN VisibleItems \ (Range(ListIds(last.result.pinned))
                         \cup Range(ListIds(last.result.recent)))
    ELSE {}

\* The numbers of recent items that may have been admitted when the scan
\* reached item i: those of a greater score were, those of a smaller score
\* were not.
AdmittedBefore(i) ==
    {n \in 0..Len(last.result.recent) :
        /\ \A k \in 1..n : BootScore(last.result.recent[k].id) >= BootScore(i)
        /\ \A k \in (n + 1)..Len(last.result.recent) :
              BootScore(last.result.recent[k].id) <= BootScore(i)}

\* C25: the recent list keeps the descending order of the scores, and a
\* candidate it does not hold either was reached with no slot left or did
\* not fit what was left of the budget when the scan reached it; the scan
\* went on after it.
C25_SkipAndContinue ==
    LastBoot =>
        /\ \A j, k \in DOMAIN last.result.recent : j < k =>
              BootScore(last.result.recent[j].id) >= BootScore(last.result.recent[k].id)
        /\ \A i \in AbsentCandidates : \E n \in AdmittedBefore(i) :
              \/ Len(last.result.pinned) + n >= AskedItems
              \/ /\ last.args.max_tokens > 0
                 /\ PinnedCost + CostOfFirst(last.result.recent, n) + CostInMode(i)
                        > BudgetChars

\* A bootstrap under a budget returns a recent item of a smaller score than
\* a candidate it left out for its cost.
C25_Witness ==
    /\ Budgeted
    /\ Len(last.result.pinned) + Len(last.result.recent) < AskedItems
    /\ \E i \in AbsentCandidates : \E k \in DOMAIN last.result.recent :
          /\ BootScore(last.result.recent[k].id) < BootScore(i)
          /\ \E j \in DOMAIN last.result.recent :
                BootScore(last.result.recent[j].id) > BootScore(i)

-----------------------------------------------------------------------------
(* Interrupted writes *)

\* The arguments of the last write, completed or interrupted, as normalised.
LastWritten == Normalize(last.req, last.now, multi_tenant)

\* The tags on item i before it exists: none.
TagsBefore(i) == IF i \in DOMAIN items THEN TagsOf(tagged, i) ELSE {}

\* C26: an interrupted write leaves one item of its key, with the scalars
\* of that write and valid ones, its edges on existing Tag nodes; every
\* statement of a write leaves on the item only tags it had before or tags
\* of the call; and once the next write of the key has completed the item
\* has exactly that write's tags.
C26_InterruptedWrite ==
    /\ []((Quiet /\ last.op = "interrupted") =>
            /\ Matching(items, LastWritten) = {last.id}
            /\ LET m == items[last.id]
                   a == LastWritten
               IN  /\ m.content = a.content
                   /\ m.content_compact = a.content_compact
                   /\ m.importance = a.importance
                   /\ m.source = a.source
                   /\ m.workspace_hint = a.workspace_hint
                   /\ m.pinned = a.pinned
                   /\ m.updated_at = a.now
                   /\ m.kind \in VALID_KINDS
                   /\ m.importance \in 0..100
                   /\ m.created_at \in Times
            /\ TagsOf(tagged, last.id) \subseteq tagNodes)
    /\ [][\A p \in Procs :
            (call[p].pc \in {"merge", "create", "untag", "tag"} /\ call'[p] # call[p]) =>
                \A i \in Matching(items', call[p].a) :
                    TagsOf(tagged', i) \subseteq
                        TagsBefore(i) \cup SuppliedTagNames(call[p].a.tags)]_vars
    /\ []((Quiet /\ LastWrote) =>
            /\ TagsOf(tagged, last.result.id)
                  = SuppliedTagNames(OrElse(last.req.tags, <<>>))
            /\ \A n \in TagsOf(tagged, last.result.id) :
                  tagged[<<last.result.id, n>>] = 1)

\* A write of two tags was interrupted in the middle of its tag loop, and a
\* write of the same key with other tags has completed since.
C26_Witness ==
    /\ Quiet
    /\ LastWrote
    /\ \E p \in Procs :
          /\ call[p].pc = "interrupted"
          /\ call[p].k = 2
          /\ Len(call[p].a.tags) = 2
          /\ KeyOf(call[p].a) = KeyOf(LastWritten)
          /\ SuppliedTagNames(call[p].a.tags)
                # SuppliedTagNames(OrElse(last.req.tags, <<>>))

-----------------------------------------------------------------------------
(* The ids of the two bootstrap lists *)

\* C27: no id is in both lists of a bootstrap, and none is twice in one.
C27_NoIdTwice ==
    LastBoot =>
        LET ids == ListIds(last.result.pinned) \o ListIds(last.result.recent)
        IN  \A j, k \in DOMAIN ids : j # k => ids[j] # ids[k]

\* A bootstrap returns a pinned item in its pinned list and, limit_pinned
\* being smaller than the number of pinned items, another pinned item in its
\* recent list.
C27_Witness ==
    /\ LastBoot
    /\ last.result.pinned # <<>>
    /\ \E k \in DOMAIN last.result.recent : last.result.recent[k].id \in PinnedItems

-----------------------------------------------------------------------------
(* Rewrites *)

\* The last write left out every optional scalar argument.
OmitsScalars ==
    /\ ~last.req.pinned
    /\ last.req.importance = None
    /\ last.req.source = None
    /\ last.req.workspace_hint = None
    /\ last.req.content_compact = None

\* C28: after a write the item has the scalars of that call, those of an
\* earlier write of the key gone: a call that leaves out pinned, importance,
\* source, workspace_hint and content_compact leaves pinned false,
\* importance 50, source "agent", no workspace_hint and the compact form of
\* the new content.  created_at stays the first write's and the key is the
\* call's.
C28_RewriteOverwrites ==
    LastWrote =>
        LET m == LastItem
            a == LastWritten
        IN  /\ m.content = Strip(last.req.content)
            /\ m.content_compact = a.content_compact
            /\ m.pinned = last.req.pinned
            /\ m.importance = a.importance
            /\ m.source = a.source
            /\ m.workspace_hint = a.workspace_hint
            /\ m.updated_at = last.now
            /\ OmitsScalars =>
                  /\ m.pinned = FALSE
                  /\ m.importance = 50
                  /\ m.source = s_agent
                  /\ m.workspace_hint = None
                  /\ m.content_compact = auto_compact(m.content, AUTO_COMPACT_MAX_CHARS)
            /\ ItemKey(m) = KeyOf(a)
            /\ m.created_at = hist[ItemKey(m)].first

\* A write that leaves out every optional argument has rewritten, at the
\* last instant, the one item of the store, created at the first instant and
\* written with other scalars and with the tag b at some time (the Tag node
\* is still there).
C28_Witness ==
    /\ LastWrote
    /\ ~last.inserted
    /\ OmitsScalars
    /\ last.req.tags = None
    /\ Len(items) = 1
    /\ t_b \in tagNodes
    /\ last.prev = Some(1)
    /\ LastItem.created_at = 1
    /\ LastItem.updated_at = MaxTime

-----------------------------------------------------------------------------
(* What a write leaves alone *)

\* C29: a step of a write on a key leaves every item of another key as it
\* was, with its TAGGED_WITH edges, and leaves the Sessions and the FOLLOWS
\* edges as they were; and no step of any operation takes a MemoryItem or a
\* Session away.
C29_WriteFrame ==
    [][/\ Len(items') >= Len(items)
       /\ \A i \in DOMAIN items : ItemKey(items'[i]) = ItemKey(items[i])
       /\ Len(sessions') >= Len(sessions)
       /\ \A j \in DOMAIN sessions : sessions'[j] = sessions[j]
       /\ follows \subseteq follows'
       /\ last'.op = "write_memory" =>
             /\ \A i \in DOMAIN items :
                   ItemKey(items[i]) # KeyOf(Normalize(last'.req, last'.now, multi_tenant)) =>
                       /\ items'[i] = items[i]
                       /\ TagBagOf(tagged', i) = TagBagOf(tagged, i)
             /\ sessions' = sessions
             /\ follows' = follows]_vars

\* A write has rewritten its key beside a tagged item of another key (on the
\* multi-tenant store: of the same kind and title in another space) and two
\* sessions, one following the other.
C29_Witness ==
    /\ LastWrote
    /\ ~last.inserted
    /\ Len(sessions) >= 2
    /\ follows # {}
    /\ \E i \in DOMAIN items :
          /\ i # last.result.id
          /\ TagsOf(tagged, i) # {}
          /\ multi_tenant =>
                /\ items[i].kind = LastItem.kind
                /\ items[i].title = LastItem.title

-----------------------------------------------------------------------------
(* Read your writes across tenants *)

\* The items of the space the caller of the last operation writes into.
OwnItems ==
    {i \in DOMAIN items :
        items[i].space_id = Some(derive_space_and_allowed(last.ctx).space_id)}

\* The items the last search or bootstrap returned.
ReadBack ==
    IF LastSearch THEN {last.result[k].id : k \in DOMAIN last.result}
    ELSE {r.id : r \in EmittedItems}

\* The caller's own space is among the spaces its reads are filtered on.
ClaimsOwnSpace ==
    derive_space_and_allowed(last.ctx).space_id
        \in Range(derive_space_and_allowed(last.ctx).allowed)

ReadYourWritesWhenClaimed ==
    ((LastSearch \/ LastBoot) /\ ClaimsOwnSpace) => OwnItems \subseteq ReadBack

\* A context's reads miss its own writes exactly when its allowed spaces
\* leave out its own space.
OwnSpaceUnseen ==
    ((LastSearch \/ LastBoot) /\ ~ClaimsOwnSpace) => OwnItems \cap ReadBack = {}

====
